---- MODULE Spec2Model ----
(***************************************************************************)
(* A model of the complaint-detection service: the coordinator (main), the *)
(* per-mailbox sync loop (main_email_loop), the two feedback detectors     *)
(* (check_for_feedback), the credential queue, the persisted delta-cursor  *)
(* map, the configuration hot reload and the per-message processing        *)
(* (ComplaintProcessor.process_email).                                     *)
(***************************************************************************)
EXTENDS Integers, Sequences, FiniteSets, TLC

\* ------------------------------------------------------------------ bounds

\* Messages the provider receives per mailbox during a run.
MaxMsgs == 2

\* ------------------------------------------------------------- input sets

Mailboxes == {"a", "b"}
Duties == {"sync", "fp", "fn"}
Tasks == Mailboxes \X Duties
SyncTasks == {t \in Tasks : t[2] = "sync"}
FeedbackTasks == {t \in Tasks : t[2] # "sync"}

\* A credential as get_access_token returns it: a token string or None.
Token == "token"
None == "None"

\* A delta cursor: <<>> is "no cursor" (None, falsy), <<p>> the opaque token
\* marking position p of the mailbox's change log.
NoCursor == <<>>
CursorAt(p) == <<p>>
Truthy(c) == c # NoCursor


\* Exclusion patterns and the sender/subject strings they are matched against.
\* "gov" stands for r".*@.*\.gov", "auto" for r"Automatic Reply:.*" and
\* "star" for r"*@*.gov" (src/config.py:23), which re.match rejects.
Senders == {"cust@shop.com", "clerk@city.gov"}
Subjects == {"Order late", "Automatic Reply: away"}

\* The configuration snapshots update_config may install. ConfigGood has the
\* shape of src/config.py; ConfigLoose has no sender exclusion and a feedback
\* interval that does not parse; ConfigBroken has a main_loop interval that
\* does not parse and the sender pattern of src/config.py:23.
ConfigGood == [main_loop |-> <<"3", "0", "s">>, fp_feedback_loop |-> <<"2", "m">>,
               fn_feedback_loop |-> <<"2", "m">>,
               exclusions_from |-> <<"gov">>, exclusions_subject |-> <<"auto">>,
               delete_original |-> TRUE]
ConfigLoose == [ConfigGood EXCEPT !.fp_feedback_loop = <<"5", "x">>,
                                   !.exclusions_from = <<>>,
                                   !.delete_original = FALSE]
ConfigBroken == [ConfigGood EXCEPT !.main_loop = <<"5", "x">>,
                                    !.exclusions_from = <<"star", "gov">>]
ConfigSnapshots == {ConfigGood, ConfigLoose, ConfigBroken}

\* The kinds of message the provider may hold. verdict is what is_complaint
\* returns for the message's text ("yes", "no"); hasBody is FALSE for a change
\* entry without a body field (a removed message in a delta response).
MsgPlain == [sender |-> "cust@shop.com", subject |-> "Order late",
             hasBody |-> TRUE, verdict |-> "no"]
MsgComplaint == [MsgPlain EXCEPT !.verdict = "yes"]
MsgGovAuto == [MsgComplaint EXCEPT !.sender = "clerk@city.gov",
                                   !.subject = "Automatic Reply: away"]
MsgRemoved == [MsgPlain EXCEPT !.hasBody = FALSE]
MsgKinds == {MsgPlain, MsgComplaint, MsgGovAuto, MsgRemoved}

\* --------------------------------------------------------- pure functions

DigitChars == {"0", "1", "2", "3", "4", "5", "6", "7", "8", "9"}

DigitVal(ch) ==
    CASE ch = "0" -> 0 [] ch = "1" -> 1 [] ch = "2" -> 2 [] ch = "3" -> 3
      [] ch = "4" -> 4 [] ch = "5" -> 5 [] ch = "6" -> 6 [] ch = "7" -> 7
      [] ch = "8" -> 8 [] OTHER -> 9

\* int(interval_str[:-1]) for an unsigned digit string: its value, or -1 for
\* the ValueError that int() raises on an empty or non-digit string.
RECURSIVE ParseDigits(_, _)
ParseDigits(chars, acc) ==
    IF chars = <<>> THEN acc
    ELSE IF Head(chars) \notin DigitChars THEN -1
    ELSE ParseDigits(Tail(chars), acc * 10 + DigitVal(Head(chars)))

\* utils.parse_interval: [ok, value]; ok = FALSE is the ValueError (or the
\* IndexError of an empty string).
parse_interval(interval_str) ==
    IF interval_str = <<>> THEN [ok |-> FALSE, value |-> 0]
    ELSE LET unit == interval_str[Len(interval_str)]
             digits == SubSeq(interval_str, 1, Len(interval_str) - 1)
             value == IF digits = <<>> THEN -1 ELSE ParseDigits(digits, 0)
         IN  IF value < 0 THEN [ok |-> FALSE, value |-> 0]
             ELSE IF unit = "s" THEN [ok |-> TRUE, value |-> value]
             ELSE IF unit = "m" THEN [ok |-> TRUE, value |-> value * 60]
             ELSE IF unit = "h" THEN [ok |-> TRUE, value |-> value * 3600]
             ELSE [ok |-> FALSE, value |-> 0]

\* re.match(pattern, text) for the patterns and texts of the model: "match",
\* "nomatch", or "error" (re.error: the pattern does not compile).
ReMatch(pattern, text) ==
    CASE pattern = "star" -> "error"
      [] pattern = "gov" -> IF text = "clerk@city.gov" THEN "match" ELSE "nomatch"
      [] pattern = "auto" -> IF text = "Automatic Reply: away" THEN "match" ELSE "nomatch"
      [] OTHER -> "nomatch"

\* any(re.match(value, text) for value in patterns): the generator is consumed
\* in order and stops at the first match; a pattern that does not compile
\* raises when it is reached.
RECURSIVE AnyMatch(_, _)
AnyMatch(patterns, text) ==
    IF patterns = <<>> THEN "nomatch"
    ELSE LET r == ReMatch(Head(patterns), text)
         IN  IF r = "nomatch" THEN AnyMatch(Tail(patterns), text) ELSE r

\* EmailClient._make_graph_api_request for a request whose first `failures`
\* attempts raise RequestException: "ok" (a response is returned), "raise"
\* (the last attempt re-raises) or "none" (range(0) is empty and the function
\* falls off its end, returning None).
MakeGraphApiRequest(retries, failures) ==
    IF retries = 0 THEN "none"
    ELSE IF failures < retries THEN "ok"
    ELSE "raise"

\* The result of the request named `name` when the requests in `fails` exhaust
\* their retries and the others succeed at once.
Request(retries, name, fails) ==
    MakeGraphApiRequest(retries, IF name \in fails THEN retries ELSE 0)

RequestNames == {"get", "post", "delete_in_send", "delete_after_send"}

\* EmailClient.send_message_to_distribution_list: how it ends ("returned" or
\* "propagated": an AttributeError on a None response is not a
\* RequestException), whether sendMail was accepted, and its DELETE request.
SendMessageToDistributionList(cfg, retries, fails) ==
    LET g == Request(retries, "get", fails)
        p == Request(retries, "post", fails)
        d == Request(retries, "delete_in_send", fails)
        nothing == [ended |-> "returned", posted |-> FALSE,
                    deleteRequests |-> 0, deleted |-> FALSE]
    IN  IF g = "none" THEN [nothing EXCEPT !.ended = "propagated"]
        ELSE IF g = "raise" THEN nothing
        ELSE IF p # "ok" THEN nothing
        ELSE IF ~cfg.delete_original THEN [nothing EXCEPT !.posted = TRUE]
        ELSE [nothing EXCEPT !.posted = TRUE, !.deleteRequests = 1,
                             !.deleted = (d = "ok")]

\* What one call of ComplaintProcessor.process_email did.
\*   raised           an exception left process_email
\*   excluded         it returned at an exclusion check
\*   classified       is_complaint was called
\*   sendCalled       send_message_to_distribution_list was called
\*   posted           the forward was accepted by the provider
\*   deleteRequests   DELETE request sequences issued for the original
\*   deleted          a DELETE succeeded
NoCall == [raised |-> FALSE, excluded |-> FALSE, classified |-> FALSE,
           sendCalled |-> FALSE, posted |-> FALSE, deleteRequests |-> 0,
           deleted |-> FALSE]

\* Lines 179-195: is_complaint and, for a complaint, the forward and the
\* delete of the original. An exception of is_complaint leaves process_email;
\* one of the forward is caught at line 194, one of the delete at line 191.
ClassifyAndForward(msg, cfg, retries, fails) ==
    LET send == SendMessageToDistributionList(cfg, retries, fails)
        d2 == Request(retries, "delete_after_send", fails)
        called == [NoCall EXCEPT !.classified = TRUE]
    IN  IF msg.verdict = "raise" THEN [called EXCEPT !.raised = TRUE]
        ELSE IF msg.verdict = "no" THEN called
        ELSE IF send.ended = "propagated" THEN [called EXCEPT !.sendCalled = TRUE]
        ELSE IF ~cfg.delete_original
             THEN [called EXCEPT !.sendCalled = TRUE, !.posted = send.posted]
        ELSE [called EXCEPT !.sendCalled = TRUE, !.posted = send.posted,
                            !.deleteRequests = send.deleteRequests + 1,
                            !.deleted = (send.deleted \/ d2 = "ok")]

\* A process_email without the exclusion checks of lines 169-177: every
\* message with a body reaches is_complaint.
process_email_unfiltered(msg, cfg, retries, fails) ==
    IF ~msg.hasBody THEN [NoCall EXCEPT !.raised = TRUE]
    ELSE ClassifyAndForward(msg, cfg, retries, fails)

\* Lines 162-179: message["body"]["content"] raises KeyError without a body;
\* then the sender exclusions, then the subject exclusions, then the rest.
process_email(msg, cfg, retries, fails) ==
    LET from == AnyMatch(cfg.exclusions_from, msg.sender)
        subj == AnyMatch(cfg.exclusions_subject, msg.subject)
    IN  IF ~msg.hasBody THEN [NoCall EXCEPT !.raised = TRUE]
        ELSE IF from = "error" THEN [NoCall EXCEPT !.raised = TRUE]
        ELSE IF from = "match" THEN [NoCall EXCEPT !.excluded = TRUE]
        ELSE IF subj = "error" THEN [NoCall EXCEPT !.raised = TRUE]
        ELSE IF subj = "match" THEN [NoCall EXCEPT !.excluded = TRUE]
        ELSE ClassifyAndForward(msg, cfg, retries, fails)

\* ------------------------------------------------------------------ text

\* Texts are sequences of characters. "LF" stands for a line feed.
Whitespace == {" ", "LF"}
WordChars == {"a", "b", "d", "e", "f", "g", "h", "i", "n", "o", "r", "s",
              "t", "u", "y", "B", "U", "N"}

\* str.lower(), on the letters the texts use.
LowerChar(ch) ==
    CASE ch = "B" -> "b"
      [] ch = "U" -> "u"
      [] ch = "N" -> "n"
      [] OTHER -> ch

Lower(text) == [i \in 1..Len(text) |-> LowerChar(text[i])]

\* Python's `sub in text`; the empty string is in every text.
Contains(text, sub) ==
    \E i \in 1..(Len(text) - Len(sub) + 1) :
        SubSeq(text, i, i + Len(sub) - 1) = sub

\* The end of a match of '<[^<]+?>' that starts at text[i] = "<": the first
\* ">" at least two places on, with no "<" in between; 0 when there is none.
TagEnd(text, i) ==
    LET ends == {j \in (i + 2)..Len(text) :
                    /\ text[j] = ">"
                    /\ \A k \in (i + 1)..(j - 1) : text[k] # "<"}
    IN  IF ends = {} THEN 0
        ELSE CHOOSE j \in ends : \A k \in ends : j <= k

\* re.sub('<[^<]+?>', '', text), scanning from place i.
RECURSIVE StripTags(_, _)
StripTags(text, i) ==
    IF i > Len(text) THEN <<>>
    ELSE IF text[i] = "<" /\ TagEnd(text, i) # 0
         THEN StripTags(text, TagEnd(text, i) + 1)
         ELSE <<text[i]>> \o StripTags(text, i + 1)

\* re.sub(r'\s+', ' ', text): every run of whitespace becomes one space.
RECURSIVE CollapseSpaces(_, _)
CollapseSpaces(text, i) ==
    IF i > Len(text) THEN <<>>
    ELSE IF text[i] \in Whitespace
         THEN IF i > 1 /\ text[i - 1] \in Whitespace
              THEN CollapseSpaces(text, i + 1)
              ELSE <<" ">> \o CollapseSpaces(text, i + 1)
         ELSE <<text[i]>> \o CollapseSpaces(text, i + 1)

\* str.strip() of a text whose whitespace runs are single spaces.
Strip(text) ==
    LET first == IF text # <<>> /\ Head(text) = " " THEN 2 ELSE 1
        last == IF text # <<>> /\ text[Len(text)] = " "
                THEN Len(text) - 1 ELSE Len(text)
    IN  SubSeq(text, first, last)

\* utils.clean_email: tags removed, whitespace collapsed, stripped, lowered.
clean_email(email_str) ==
    Lower(Strip(CollapseSpaces(StripTags(email_str, 1), 1)))

\* The split of get_contextual_score, line 110: at a whitespace character
\* that follows "." or "?", unless the four characters before it are a word
\* character, ".", a word character and any character ("u.s. ").
SplitsAt(text, i) ==
    /\ text[i] \in Whitespace
    /\ i > 1
    /\ text[i - 1] \in {".", "?"}
    /\ ~(/\ i > 4
         /\ text[i - 4] \in WordChars
         /\ text[i - 3] = "."
         /\ text[i - 2] \in WordChars)

\* The sentences of text from place `from` on, `i` being the place examined.
RECURSIVE Sentences(_, _, _)
Sentences(text, from, i) ==
    IF i > Len(text) THEN <<SubSeq(text, from, Len(text))>>
    ELSE IF SplitsAt(text, i)
         THEN <<SubSeq(text, from, i - 1)>> \o Sentences(text, i + 1, i + 1)
         ELSE Sentences(text, from, i + 1)

\* ------------------------------------------------------------ classifier

\* An attribute of the processor: never assigned (reading it raises
\* AttributeError), or assigned a value.
Unset(empty) == [assigned |-> FALSE, value |-> empty]
Attr(v) == [assigned |-> TRUE, value |-> v]

\* Outputs of the sentiment capability for a text: an exception, or a label
\* and a confidence in tenths.
SentimentRaises == [raises |-> TRUE, label |-> "NONE", score |-> 0]
NegativeSure == [raises |-> FALSE, label |-> "NEGATIVE", score |-> 9]
NegativeUnsure == [raises |-> FALSE, label |-> "NEGATIVE", score |-> 5]
PositiveSure == [raises |-> FALSE, label |-> "POSITIVE", score |-> 9]
SentimentOutputs == {SentimentRaises, NegativeSure, NegativeUnsure, PositiveSure}

\* Outputs of the embedding capability: an exception, or vectors whose
\* cosine similarity (in tenths) is the same for every pair compared.
EmbeddingRaises == [raises |-> TRUE, similarity |-> 0]
EmbeddingFar == [raises |-> FALSE, similarity |-> 2]
EmbeddingNear == [raises |-> FALSE, similarity |-> 6]
EmbeddingOutputs == {EmbeddingRaises, EmbeddingFar, EmbeddingNear}

\* The fields of the configuration snapshot is_complaint reads, thresholds
\* in tenths.
Settings ==
    [sentiment_threshold : {8}, use_contextual_check : BOOLEAN,
     contextual_score_threshold : {10}, fallback : BOOLEAN]

\* get_sentiment, lines 128-136: the classifier's score and label, or
\* (0.0, "NEUTRAL") when it raises.
get_sentiment(sent) ==
    IF sent.raises THEN [score |-> 0, label |-> "NEUTRAL"]
    ELSE [score |-> sent.score, label |-> sent.label]

\* get_contextual_score, lines 105-126: for every keyword with an embedding,
\* one similarity per sentence that contains it and one more, against the
\* whole body, when some sentence does.
get_contextual_score(email_body, keyword_embeddings_, emb) ==
    LET sentences == Sentences(email_body, 1, 1)
        InSentence(k, j) == Contains(Lower(sentences[j]), Lower(k))
        hits == {<<k, j>> \in keyword_embeddings_ \X (1..Len(sentences)) :
                    InSentence(k, j)}
        present == {k \in keyword_embeddings_ :
                       \E j \in 1..Len(sentences) : InSentence(k, j)}
    IN  emb.similarity * (Cardinality(hits) + Cardinality(present))

\* What a call of is_complaint did: ended "returned" or "raised"; result;
\* whether the sentiment classifier was called; the signal that decided.
Decision(ended, result, called, signal) ==
    [ended |-> ended, result |-> result, sentimentCalled |-> called,
     signal |-> signal]

\* An is_complaint without the test of lines 140-142: the signals are
\* evaluated whatever the body and the subject are.
is_complaint_unguarded(email_body, email_subject, st, keywords, embeddings, sent, emb) ==
    LET cleaned_body == clean_email(email_body)
        sentiment == get_sentiment(sent)
        contextual_score ==
            IF st.use_contextual_check
            THEN get_contextual_score(cleaned_body, embeddings.value, emb)
            ELSE 0
    IN  IF st.use_contextual_check /\ (emb.raises \/ ~embeddings.assigned)
        THEN Decision("raised", FALSE, TRUE, "none")
        ELSE IF sentiment.label = "NEGATIVE"
                /\ sentiment.score >= st.sentiment_threshold
        THEN Decision("returned", TRUE, TRUE, "sentiment")
        ELSE IF contextual_score >= st.contextual_score_threshold
        THEN Decision("returned", TRUE, TRUE, "contextual")
        ELSE IF st.fallback /\ ~keywords.assigned
        THEN Decision("raised", FALSE, TRUE, "none")
        ELSE IF st.fallback
                /\ \E i \in 1..Len(keywords.value) :
                       Contains(Lower(cleaned_body), Lower(keywords.value[i]))
        THEN Decision("returned", TRUE, TRUE, "keyword")
        ELSE Decision("returned", FALSE, TRUE, "none")

\* is_complaint, lines 138-160. keywords and embeddings are the processor's
\* complaint_keywords and keyword_embeddings attributes.
is_complaint(email_body, email_subject, st, keywords, embeddings, sent, emb) ==
    LET cleaned_body == clean_email(email_body)
        sentiment == get_sentiment(sent)
        contextual_score ==
            IF st.use_contextual_check
            THEN get_contextual_score(cleaned_body, embeddings.value, emb)
            ELSE 0
    IN  IF email_body = <<>> \/ email_subject = <<>>
        THEN Decision("returned", FALSE, FALSE, "none")
        ELSE IF st.use_contextual_check /\ (emb.raises \/ ~embeddings.assigned)
        THEN Decision("raised", FALSE, TRUE, "none")
        ELSE IF sentiment.label = "NEGATIVE"
                /\ sentiment.score >= st.sentiment_threshold
        THEN Decision("returned", TRUE, TRUE, "sentiment")
        ELSE IF contextual_score >= st.contextual_score_threshold
        THEN Decision("returned", TRUE, TRUE, "contextual")
        ELSE IF st.fallback /\ ~keywords.assigned
        THEN Decision("raised", FALSE, TRUE, "none")
        ELSE IF st.fallback
                /\ \E i \in 1..Len(keywords.value) :
                       Contains(Lower(cleaned_body), Lower(keywords.value[i]))
        THEN Decision("returned", TRUE, TRUE, "keyword")
        ELSE Decision("returned", FALSE, TRUE, "none")

\* Texts of the examples: bodies, subjects and keywords.
BodyBad == <<"i", "t", " ", "i", "s", " ", "b", "a", "d", ".">>
BodyNotBad == <<"N", "o", "t", " ", "b", "a", "d", ".">>
BodyTagged == <<"<", "b", ">", "B", "a", "d", "<", "/", "b", ">", " ", "LF",
                "d", "a", "y", ".", " ", "s", "o", " ", "b", "a", "d">>
BodyFine == <<"f", "i", "n", "e">>
BodyUrgent == <<"U", "r", "g", "e", "n", "t">>
Bodies == {BodyBad, BodyNotBad, BodyTagged, BodyFine, BodyUrgent, <<>>}

SubjectHi == <<"h", "i">>
SubjectBad == <<"U", "r", "g", "e", "n", "t", " ", "b", "a", "d">>
ClassifierSubjects == {SubjectHi, SubjectBad, <<>>}

KwBad == <<"b", "a", "d">>
KwSoBad == <<"s", "o", " ", "b", "a", "d">>
KwSad == <<"s", "a", "d">>

\* ---------------------------------------------------------- keyword store

\* The complaint keywords file, as the lines a read returns.
Line(keyword) == keyword \o <<"LF">>
FileBad == <<Line(KwBad)>>
FileBoth == <<Line(KwBad), Line(KwSoBad)>>
FileSad == <<Line(KwSad)>>
KeywordFiles == {FileBad, FileBoth, FileSad}

\* str.strip() of a line.
RECURSIVE StripLine(_)
StripLine(line) ==
    IF line = <<>> THEN <<>>
    ELSE IF Head(line) \in Whitespace THEN StripLine(Tail(line))
    ELSE IF line[Len(line)] \in Whitespace
         THEN StripLine(SubSeq(line, 1, Len(line) - 1))
         ELSE line

\* utils.load_keywords_from_file, lines 6-19: the stripped lines, or [] when
\* the file cannot be opened or read.
load_keywords_from_file(file, readable) ==
    IF readable THEN [i \in 1..Len(file) |-> StripLine(file[i])] ELSE <<>>

\* One element put into a list sorted by descending length, after the
\* elements at least as long (the sort is stable).
RECURSIVE InsertByLen(_, _)
InsertByLen(sorted, x) ==
    IF sorted = <<>> THEN <<x>>
    ELSE IF Len(Head(sorted)) >= Len(x)
         THEN <<Head(sorted)>> \o InsertByLen(Tail(sorted), x)
         ELSE <<x>> \o sorted

\* sorted(list, key=len, reverse=True).
RECURSIVE SortByLenDesc(_)
SortByLenDesc(list) ==
    IF list = <<>> THEN <<>>
    ELSE InsertByLen(SortByLenDesc(SubSeq(list, 1, Len(list) - 1)),
                     list[Len(list)])

Range(list) == {list[i] : i \in 1..Len(list)}

\* keyword_embeddings.json: "absent", "corrupt" (it does not decode) or
\* "ok" with the keywords it holds embeddings for.
CacheAbsent == [state |-> "absent", keys |-> {}]
CacheCorrupt == [state |-> "corrupt", keys |-> {}]
CacheOf(keys) == [state |-> "ok", keys |-> keys]

\* _load_cached_keywords, lines 77-84: the keys of the cache file, [] when it
\* cannot be read or decoded.
LoadCachedKeywords(cache) == IF cache.state = "ok" THEN cache.keys ELSE {}

\* generate_keyword_embeddings, lines 55-75, for the keywords just assigned.
\* Without a cache file for this keyword set the embeddings are computed
\* (get_embedding may raise) and dumped to the cache file: "written", or
\* "unopened" when open() fails, or "truncated" when json.dump fails after
\* open() truncated the file. Otherwise they are loaded from the cache file.
generate_keyword_embeddings(keywords, cache, emb, outcome) ==
    LET keys == Range(keywords)
        raised(c) == [raised |-> TRUE, embeddings |-> {}, cache |-> c,
                      how |-> "none"]
    IN  IF cache.state = "absent" \/ keys # LoadCachedKeywords(cache)
        THEN IF keywords # <<>> /\ emb.raises THEN raised(cache)
             ELSE IF outcome = "unopened" THEN raised(cache)
             ELSE IF outcome = "truncated" THEN raised(CacheCorrupt)
             ELSE [raised |-> FALSE, embeddings |-> keys,
                   cache |-> CacheOf(keys), how |-> "generated"]
        ELSE IF cache.state = "corrupt" THEN raised(cache)
             ELSE [raised |-> FALSE, embeddings |-> cache.keys,
                   cache |-> cache, how |-> "loaded"]

\* The reload_keywords of src/config_loader.py, lines 43-49: no comparison
\* with the current keywords, the embeddings are regenerated on every call.
reload_keywords_always(keywords, embeddings, cache, file, readable, emb, outcome) ==
    LET new_complaint_keywords ==
            SortByLenDesc(load_keywords_from_file(file, readable))
        gen == generate_keyword_embeddings(new_complaint_keywords, cache,
                                           emb, outcome)
    IN  IF gen.raised
        THEN [complaint_keywords |-> Attr(new_complaint_keywords),
              keyword_embeddings |-> embeddings, cache_file |-> gen.cache,
              ended |-> "raised", how |-> "none"]
        ELSE [complaint_keywords |-> Attr(new_complaint_keywords),
              keyword_embeddings |-> Attr(gen.embeddings),
              cache_file |-> gen.cache, ended |-> "returned", how |-> gen.how]

\* reload_keywords, lines 44-53: the processor's attributes and the cache
\* file after the call. Line 50 reads complaint_keywords; line 51 assigns it
\* before line 52 regenerates the embeddings.
reload_keywords(keywords, embeddings, cache, file, readable, emb, outcome) ==
    LET new_complaint_keywords ==
            SortByLenDesc(load_keywords_from_file(file, readable))
        gen == generate_keyword_embeddings(new_complaint_keywords, cache,
                                           emb, outcome)
        same == [complaint_keywords |-> keywords,
                 keyword_embeddings |-> embeddings, cache_file |-> cache,
                 ended |-> "returned", how |-> "none"]
    IN  IF ~keywords.assigned THEN [same EXCEPT !.ended = "raised"]
        ELSE IF new_complaint_keywords = keywords.value THEN same
        ELSE IF gen.raised
        THEN [same EXCEPT !.complaint_keywords = Attr(new_complaint_keywords),
                          !.cache_file = gen.cache, !.ended = "raised"]
        ELSE [same EXCEPT !.complaint_keywords = Attr(new_complaint_keywords),
                          !.keyword_embeddings = Attr(gen.embeddings),
                          !.cache_file = gen.cache, !.how = gen.how]

\* ---------------------------------------------------------- fetch request

\* config.email_filter: None, or a dictionary of from_domain, start_date and
\* subject_contains, each "" when not configured. "yesterday" is a start
\* date datetime.fromisoformat rejects.
NoFilter == [given |-> FALSE, from_domain |-> "", start_date |-> "",
             subject_contains |-> ""]
EmailFilters ==
    {NoFilter} \cup
    [given : {TRUE}, from_domain : {"", "shop.com"},
     start_date : {"", "2024-01-01", "yesterday"},
     subject_contains : {"", "Important"}]

\* _build_filter_query, lines 110-125: the parts of the $filter parameter,
\* joined by " and "; an invalid start date is logged and left out.
build_filter_query(email_filter) ==
    IF ~email_filter.given THEN <<>>
    ELSE (IF email_filter.from_domain # ""
          THEN <<"from/emailAddress/address eq">> ELSE <<>>)
         \o (IF email_filter.start_date \notin {"", "yesterday"}
             THEN <<"receivedDateTime ge">> ELSE <<>>)
         \o (IF email_filter.subject_contains # ""
             THEN <<"contains(subject">> ELSE <<>>)

\* urllib.parse.quote of a delta token.
Quote(delta_token) == [quoted |-> delta_token]

\* The query parameters a request does not carry.
NoParams == [deltaToken |-> Quote(NoCursor), select |-> FALSE, top |-> FALSE,
             filter |-> <<>>]

\* A get_emails that adds the configured filters to every request.
QueryParamsFiltered(delta_token, email_filter) ==
    IF Truthy(delta_token)
    THEN [NoParams EXCEPT !.deltaToken = Quote(delta_token),
                          !.filter = build_filter_query(email_filter)]
    ELSE [NoParams EXCEPT !.select = TRUE, !.top = TRUE,
                          !.filter = build_filter_query(email_filter)]

\* get_emails, lines 144-158: the query parameters of the first request.
QueryParams(delta_token, email_filter) ==
    IF Truthy(delta_token)
    THEN [NoParams EXCEPT !.deltaToken = Quote(delta_token)]
    ELSE [NoParams EXCEPT !.select = TRUE, !.top = TRUE,
                          !.filter = build_filter_query(email_filter)]

\* -------------------------------------------------------- feedback scan

\* config.distribution_list_email, and some other address.
DistributionList == "complaints@corp.com"
OtherAddress == "someone@corp.com"

\* The text the false-positive scan searches for, up to the id, and the
\* character that ends the id.
MarkerPrefix == "X-Complaint-Processor: Processed-v1.0; ID="
MarkerEnd == ";"

\* A message body: absent (no "body" key), or its content as pieces of text.
NoBody == [present |-> FALSE, content |-> <<>>]
Body(content) == [present |-> TRUE, content |-> content]

FeedbackIds == {1, 2}

\* Messages an Inbox query may return: a returned forward carrying the
\* marker; a marked message sent elsewhere; an unmarked message to the
\* distribution list that has the id of the first; a message without body
\* to the distribution list; a message whose marker is split over two lines.
FeedbackMessages ==
    {[id |-> 1, body |-> Body(<<"Returned mail", MarkerPrefix, "7", MarkerEnd>>),
      toRecipients |-> <<DistributionList>>],
     [id |-> 2, body |-> Body(<<MarkerPrefix, "8", MarkerEnd>>),
      toRecipients |-> <<OtherAddress>>],
     [id |-> 1, body |-> Body(<<"hello">>),
      toRecipients |-> <<OtherAddress, DistributionList>>],
     [id |-> 2, body |-> NoBody, toRecipients |-> <<DistributionList>>],
     [id |-> 2, body |-> Body(<<MarkerPrefix, "9", "LF", MarkerEnd>>),
      toRecipients |-> <<>>]}

\* EmailClient._create_forward_message_payload: the message sendMail is
\* asked to send. It is addressed to the distribution list alone, its
\* subject is prefixed, its body is the original's content and nothing is
\* added that names the sender as this system.
create_forward_message_payload(original_message) ==
    [subject |-> <<"FW: ">> \o original_message.subject,
     toRecipients |-> <<DistributionList>>,
     body |-> Body(original_message.body.content),
     saveToSentItems |-> FALSE]

\* The provider delivers a sent message into an Inbox under a new id. origin
\* is history: "forward" for a message this system's forward produced,
\* "external" for any other. It is not a field a query returns.
Delivered(message, id, origin) ==
    [id |-> id, subject |-> message.subject, body |-> message.body,
     toRecipients |-> message.toRecipients, origin |-> origin]

\* A complaint as the sync loop fetched it.
OriginalComplaint ==
    [subject |-> <<"Refund">>, body |-> Body(<<"it is bad.">>),
     toRecipients |-> <<OtherAddress>>]

\* The forward of that complaint, delivered back into a monitored mailbox
\* that is a member of the distribution list.
OwnForward ==
    Delivered(create_forward_message_payload(OriginalComplaint), 1, "forward")

\* A complaint somebody else sent to the distribution list.
ExternalToList ==
    Delivered([OriginalComplaint EXCEPT !.toRecipients = <<DistributionList>>],
              2, "external")

\* re.search(r"X-Complaint-Processor: Processed-v1.0; ID=(.*?);", content):
\* the prefix, then the end character later on the same line.
MarkerSearch(content) ==
    \E i \in 1..Len(content) :
        /\ content[i] = MarkerPrefix
        /\ \E j \in (i + 1)..Len(content) :
              /\ content[j] = MarkerEnd
              /\ \A k \in (i + 1)..(j - 1) : content[k] # "LF"

\* Lines 78-82: some recipient is the distribution list.
ToDistributionList(message) ==
    \E i \in 1..Len(message.toRecipients) :
        message.toRecipients[i] = DistributionList

\* What a scan has done so far: the ids it logged, in order, and the ids it
\* passed over as already processed.
NothingSeen == [reports |-> <<>>, skipped |-> {}]

\* A scan that reports a message without recording its id.
RECURSIVE scan_messages_unrecorded(_, _, _, _)
scan_messages_unrecorded(messages, processed, seen, feedback_type) ==
    IF messages = <<>>
    THEN [ended |-> "done", processed_message_ids |-> processed, seen |-> seen]
    ELSE LET message == Head(messages)
         IN  IF message.id \in processed
             THEN scan_messages_unrecorded(Tail(messages), processed,
                      [seen EXCEPT !.skipped = @ \cup {message.id}],
                      feedback_type)
             ELSE IF feedback_type = "fp" /\ ~message.body.present
             THEN [ended |-> "raised", processed_message_ids |-> processed,
                   seen |-> seen]
             ELSE IF \/ feedback_type = "fp" /\ MarkerSearch(message.body.content)
                     \/ feedback_type = "fn" /\ ToDistributionList(message)
             THEN scan_messages_unrecorded(Tail(messages), processed,
                      [seen EXCEPT !.reports = Append(@, message.id)],
                      feedback_type)
             ELSE scan_messages_unrecorded(Tail(messages), processed, seen, feedback_type)

\* check_for_feedback, lines 61-91: the for loop over the response. A message
\* whose id is in processed_message_ids is skipped; a reported message's id
\* is added to the set. message["body"] of a message without body raises
\* KeyError, which ends the loop (caught at line 98).
RECURSIVE scan_messages(_, _, _, _)
scan_messages(messages, processed, seen, feedback_type) ==
    IF messages = <<>>
    THEN [ended |-> "done", processed_message_ids |-> processed, seen |-> seen]
    ELSE LET message == Head(messages)
         IN  IF message.id \in processed
             THEN scan_messages(Tail(messages), processed,
                      [seen EXCEPT !.skipped = @ \cup {message.id}],
                      feedback_type)
             ELSE IF feedback_type = "fp" /\ ~message.body.present
             THEN [ended |-> "raised", processed_message_ids |-> processed,
                   seen |-> seen]
             ELSE IF \/ feedback_type = "fp" /\ MarkerSearch(message.body.content)
                     \/ feedback_type = "fn" /\ ToDistributionList(message)
             THEN scan_messages(Tail(messages), processed \cup {message.id},
                      [seen EXCEPT !.reports = Append(@, message.id)],
                      feedback_type)
             ELSE scan_messages(Tail(messages), processed, seen, feedback_type)

\* A scan that deletes what it reports.
FeedbackRequestsDeleting(reports) ==
    <<[method |-> "GET", id |-> 0]>>
        \o [i \in 1..Len(reports) |-> [method |-> "DELETE", id |-> reports[i]]]

\* The HTTP requests of one scan: the requests.get of line 57 and no other.
FeedbackRequests(reports) == <<[method |-> "GET", id |-> 0]>>

\* The provider's Inbox after a sequence of requests: a GET changes nothing,
\* a DELETE removes the message of that id.
RECURSIVE Provider(_, _)
Provider(messages, requests) ==
    IF requests = <<>> THEN messages
    ELSE LET request == Head(requests)
             Kept(message) == message.id # request.id
         IN  Provider(IF request.method = "GET" THEN messages
                      ELSE SelectSeq(messages, Kept),
                      Tail(requests))

\* Lines 43-92 for one cycle: not due, nothing happens; a failed request is
\* caught at line 94; otherwise the response is scanned.
check_for_feedback(due, fails, messages, processed, feedback_type) ==
    IF ~due
    THEN [ended |-> "skipped", processed_message_ids |-> processed,
          seen |-> NothingSeen, requests |-> <<>>]
    ELSE IF fails
    THEN [ended |-> "failed", processed_message_ids |-> processed,
          seen |-> NothingSeen, requests |-> FeedbackRequests(<<>>)]
    ELSE LET r == scan_messages(messages, processed, NothingSeen, feedback_type)
         IN  [ended |-> r.ended,
              processed_message_ids |-> r.processed_message_ids,
              seen |-> r.seen,
              requests |-> FeedbackRequests(r.seen.reports)]

\* The number of reports of each id after `reports`, counted up to 2.
RECURSIVE Count(_, _)
Count(counts, reports) ==
    IF reports = <<>> THEN counts
    ELSE Count([counts EXCEPT ![Head(reports)] = IF @ < 2 THEN @ + 1 ELSE 2],
               Tail(reports))

\* ---------------------------------------------------------- file observer

\* One iteration of FileObserver._observe, lines 44-75, on the file as it is:
\* what last_modified becomes and whether event_handler.on_modified is
\* called. A missing file resets last_modified; the first time seen is only
\* recorded; a later time calls the handler; an earlier time is recorded
\* without a call. getmtime raising OSError (the file removed after the
\* exists test) changes nothing.
observe(file, last, oserror) ==
    IF ~file.exists THEN [last_modified |-> <<>>, called |-> FALSE]
    ELSE IF oserror THEN [last_modified |-> last, called |-> FALSE]
    ELSE IF last = <<>> THEN [last_modified |-> <<file.mtime>>, called |-> FALSE]
    ELSE IF file.mtime > last[1]
    THEN [last_modified |-> <<file.mtime>>, called |-> TRUE]
    ELSE IF file.mtime < last[1]
    THEN [last_modified |-> <<file.mtime>>, called |-> FALSE]
    ELSE [last_modified |-> last, called |-> FALSE]

\* ------------------------------------------------------------------ state

\* The values EmailClient.max_retries may be constructed with.
RetryValues == {0, 3}

\* The mailboxes that receive mail during a run; the others stay empty.
Receiving == {"a"}

\* Messages per page of a provider response.
PageSize == 1

VARIABLES
    monitored,            \* config.monitored_mailboxes, as main reads it
    mainPc,               \* main(): "start", "running", "joining", "exited"
    mainToken,            \* main's local access_token
    observing,            \* the FileObserver thread is running
    queue,                \* access_token_queue
    pc,                   \* each task's position
    access_token,         \* each task's local access_token
    config,               \* the shared Config object's current snapshot
    max_retries,          \* EmailClient.max_retries, read once in __init__
    config_reload_event,  \* threading.Event
    rederived,            \* history: reload_keywords and reload_sentiment_pipeline
                          \* have run since config_reload_event was last set
    log,                  \* provider: each mailbox's messages, in arrival order
    deltaFile,            \* the delta-token file: readable or not, and its map
    loc,                  \* each sync loop's locals
    cyc,                  \* history: what each sync loop did in its current cycle
    lastCall,             \* history: the last process_email call of the current batch
    everProcessed         \* history: <<mailbox, id>> ever passed to process_email

\* The feedback detectors.
VARIABLES
    inbox,                   \* provider: the recent messages of the Inbox
    processed_message_ids,   \* each feedback task's processed_message_ids
    reported,                \* history: how often each task logged each id
    skipped                  \* history: the ids each task passed over as
                             \* already processed

\* The state of the units examined on their own: the ComplaintProcessor's
\* classifier and keyword store.
VARIABLES
    input,                \* the call under examination: body, subject, settings
                          \* and the outputs of the mocked capabilities
    complaint_keywords,   \* ComplaintProcessor.complaint_keywords
    keyword_embeddings,   \* ComplaintProcessor.keyword_embeddings (its keys)
    keywords_file,        \* the complaint keywords file
    cache_file,           \* keyword_embeddings.json
    lastRead,             \* history: what the last reload_keywords read
    lastDecision,         \* history: the last is_complaint call
    firstDecision,        \* history: the first is_complaint call since a
                          \* reload_keywords read something new
    since,                \* history: what followed that first call: "none"
                          \* (no call yet), "called", "reloaded" (a
                          \* reload_keywords), "repeated" (then a second call)
    lastReload            \* history: how the last reload_keywords ended

\* The state of get_emails examined on its own.
VARIABLES
    email_filter,         \* config.email_filter
    lastQuery             \* history: the last request get_emails built

\* The scan window of one feedback detector, examined on its own with a clock.
VARIABLES
    clock,                \* time.time()
    received,             \* provider: receivedDateTime of the Inbox messages
    windowPc,             \* the detector's position: "get", "due", "sleep"
    last_checked,         \* check_for_feedback's local last_checked
    wake,                 \* when the detector's time.sleep returns
    scan,                 \* history: the detector's latest scan
    previous              \* history: the time of the scan before it

windowVars == <<clock, received, windowPc, last_checked, wake, scan, previous>>

fbVars == <<inbox, processed_message_ids, reported, skipped, windowVars>>

\* The state of the FileObserver examined on its own.
VARIABLES
    config_file,          \* the configuration file: exists, mtime, content
    last_modified,        \* _observe's local last_modified
    handled               \* history: the file content at the last call of
                          \* on_modified (at first, the content loaded at startup)

mainVars == <<monitored, mainPc, mainToken, observing, queue, pc, access_token, config, max_retries,
              config_reload_event, rederived, log, deltaFile, loc, cyc, lastCall,
              everProcessed, fbVars>>

classifierVars == <<input, complaint_keywords, keyword_embeddings,
                    keywords_file, cache_file, lastRead, lastDecision,
                    firstDecision, since, lastReload>>

requestVars == <<email_filter, lastQuery>>

observerVars == <<config_file, last_modified, handled>>

unitVars == <<classifierVars, requestVars, observerVars>>

vars == <<mainVars, unitVars>>

NoMap == [m \in Mailboxes |-> NoCursor]

NoLocals == [delta_tokens |-> NoMap, emails |-> <<>>,
             new_delta_token |-> NoCursor, idx |-> 1]

\* fetch: "none" (not yet), "ok", "failed" (get_emails returned [], None) or
\* "error" (get_emails raised); failPage: the page whose request failed;
\* cursor0: the mailbox's persisted cursor when the cycle loaded the map;
\* saves: the cursors save_delta_tokens was called with; processed: the
\* process_email calls; raised: a process_email call raised; unforwarded: a
\* process_email call tried a forward that the provider did not accept.
NoCycle == [fetch |-> "none", failPage |-> 0, cursor0 |-> NoCursor,
            saves |-> <<>>, processed |-> 0, raised |-> FALSE,
            unforwarded |-> FALSE]

\* id = 0: no call yet in the current batch; cfg: the snapshot the call read.
NoLastCall == [task |-> <<"a", "sync">>, id |-> 0, cfg |-> ConfigGood,
               result |-> NoCall]

\* load_delta_tokens: the file's map, or {} when it cannot be read or decoded.
load_delta_tokens(file, readable) ==
    IF file.ok /\ readable THEN file.map ELSE NoMap

\* save_delta_tokens: the file after the call. "written": the map is dumped;
\* "unopened": open() failed and the file is as it was; "truncated": the
\* write failed after open() truncated the file, which no longer decodes.
save_delta_tokens(file, delta_tokens, outcome) ==
    CASE outcome = "written" -> [ok |-> TRUE, map |-> delta_tokens]
      [] outcome = "truncated" -> [ok |-> FALSE, map |-> NoMap]
      [] OTHER -> file

SaveOutcomes == {"written", "unopened", "truncated"}

\* The cursor persisted for mailbox m.
Persisted(m) == load_delta_tokens(deltaFile, TRUE)[m]

NoDecision == Decision("none", FALSE, FALSE, "none")
NoReload == [ended |-> "none", how |-> "none"]

ClassifierInputs ==
    [body : Bodies, subject : ClassifierSubjects, settings : Settings,
     sent : SentimentOutputs, emb : EmbeddingOutputs]

\* A processor whose keywords and embeddings were loaded from `file`, with
\* the cache file that load wrote.
LoadedFrom(file) ==
    LET keywords == SortByLenDesc(load_keywords_from_file(file, TRUE))
    IN  /\ keywords_file = file
        /\ lastRead = load_keywords_from_file(file, TRUE)
        /\ complaint_keywords = Attr(keywords)
        /\ keyword_embeddings = Attr(Range(keywords))
        /\ cache_file = CacheOf(Range(keywords))

NoHistory ==
    /\ lastDecision = NoDecision
    /\ firstDecision = NoDecision
    /\ since = "none"
    /\ lastReload = NoReload

\* No request built yet.
NoQuery == [built |-> FALSE, delta_token |-> NoCursor,
            email_filter |-> NoFilter, params |-> NoParams]

\* get_emails at rest, with the empty filter of src/config.py.
RequestIdle ==
    /\ email_filter = [NoFilter EXCEPT !.given = TRUE]
    /\ lastQuery = NoQuery

\* os.path.getmtime values and file contents (numbered by edit).
MaxTime == 3
MaxEdits == 2

\* last_modified = None, and a recorded modification time.
NoTime == <<>>
TimeAt(mtime) == <<mtime>>

\* The observer has recorded the modification time of the file whose content
\* was loaded at startup.
ObserverIdle ==
    /\ config_file = [exists |-> TRUE, mtime |-> 1, content |-> 0]
    /\ last_modified = TimeAt(1)
    /\ handled = 0

\* The classifier at rest.
ClassifierIdle ==
    /\ input = [body |-> BodyFine, subject |-> SubjectHi,
                settings |-> [sentiment_threshold |-> 8,
                              use_contextual_check |-> FALSE,
                              contextual_score_threshold |-> 10,
                              fallback |-> FALSE],
                sent |-> PositiveSure, emb |-> EmbeddingFar]
    /\ LoadedFrom(FileBad)
    /\ NoHistory

\* The units at rest, while the whole program is examined.
UnitsIdle ==
    /\ RequestIdle
    /\ ObserverIdle
    /\ ClassifierIdle

\* The clock's last value, the messages received in a run, and the
\* detector's interval in clock units.
MaxClock == 6
MaxMail == 2
WindowInterval == 2

\* No scan yet. since: the request's receivedDateTime bound; at: the time of
\* the request; window: the receivedDateTime values of the response.
NoScan == [done |-> FALSE, since |-> 0, at |-> 0, window |-> {}]

\* The detector before its first cycle, waiting for the credential.
WindowIdle ==
    /\ clock = 0
    /\ received = {}
    /\ windowPc = "get"
    /\ last_checked = NoTime
    /\ wake = 0
    /\ scan = NoScan
    /\ previous = NoTime

NoneProcessed == [t \in FeedbackTasks |-> {}]
NoneReported == [t \in FeedbackTasks |-> [id \in FeedbackIds |-> 0]]

\* The program's own state before main() runs, but for the monitored
\* mailboxes and the Inbox.
InitMain ==
    /\ WindowIdle
    /\ processed_message_ids = NoneProcessed
    /\ reported = NoneReported
    /\ skipped = NoneProcessed
    /\ mainPc = "start"
    /\ mainToken = None
    /\ observing = FALSE
    /\ queue = <<>>
    /\ pc = [t \in Tasks |-> "idle"]
    /\ access_token = [t \in Tasks |-> None]
    /\ config \in ConfigSnapshots
    /\ max_retries \in RetryValues
    /\ config_reload_event = FALSE
    /\ rederived = TRUE
    /\ log = [m \in Mailboxes |-> <<>>]
    /\ deltaFile = [ok |-> TRUE, map |-> NoMap]
    /\ loc = [t \in SyncTasks |-> NoLocals]
    /\ cyc = [t \in SyncTasks |-> NoCycle]
    /\ lastCall = NoLastCall
    /\ everProcessed = {}

\* The state before main() runs, but for the monitored mailboxes.
InitCommon ==
    /\ UnitsIdle
    /\ InitMain

\* The program not started, while a unit is examined on its own.
MainIdle ==
    /\ monitored = {"a"}
    /\ inbox = <<>>
    /\ InitMain
    /\ config = ConfigGood
    /\ max_retries = 3

\* One monitored mailbox: a sync loop and two feedback detectors. The
\* Inbox holds nothing recent.
Init ==
    /\ monitored = {"a"}
    /\ inbox = <<>>
    /\ InitCommon

\* Two monitored mailboxes, one of which receives mail.
InitTwo ==
    /\ monitored = Mailboxes
    /\ inbox = <<>>
    /\ InitCommon

\* ---------------------------------------------------------------- main()

\* A main without the check of lines 193-195: it goes on whatever the
\* initial token is.
StartupUnchecked(initial) == "running"

\* main, lines 193-195: without an initial token main returns.
StartupOutcome(initial) == IF initial = None THEN "exited" ELSE "running"

\* main, lines 189-230: the initial get_access_token; on None main returns,
\* otherwise the token is put into the queue, the config thread is started
\* and the three tasks of every monitored mailbox are submitted.
MainStart ==
    /\ UNCHANGED unitVars
    /\ UNCHANGED fbVars
    /\ mainPc = "start"
    /\ \E initial \in {Token, None} :
          /\ mainToken' = initial
          /\ mainPc' = StartupOutcome(initial)
          /\ IF StartupOutcome(initial) = "exited"
             THEN UNCHANGED <<queue, pc, observing>>
             ELSE /\ queue' = <<initial>>
                  /\ pc' = [t \in Tasks |->
                               IF t[1] \in monitored THEN "get" ELSE "idle"]
                  /\ observing' = TRUE
    /\ UNCHANGED <<monitored, access_token, config, max_retries,
                   config_reload_event, rederived, log, deltaFile, loc, cyc,
                   lastCall, everProcessed>>

\* main, lines 239-246: KeyboardInterrupt while waiting on a future; the
\* finally block stops the config thread, and leaving the executor block
\* waits for every task to return.
KeyboardInterrupt ==
    /\ UNCHANGED unitVars
    /\ UNCHANGED fbVars
    /\ mainPc = "running"
    /\ mainPc' = "joining"
    /\ observing' = FALSE
    /\ UNCHANGED <<monitored, mainToken, queue, pc, access_token, config,
                   max_retries, config_reload_event, rederived, log, deltaFile,
                   loc, cyc, lastCall, everProcessed>>

\* The process is killed and started again: memory is lost, the delta-token
\* file, the configuration file and the provider's mailboxes are kept.
Restart ==
    /\ UNCHANGED unitVars
    /\ UNCHANGED inbox
    /\ UNCHANGED windowVars
    /\ processed_message_ids' = NoneProcessed
    /\ reported' = NoneReported
    /\ skipped' = NoneProcessed
    /\ mainPc \in {"running", "joining"}
    /\ mainPc' = "start"
    /\ mainToken' = None
    /\ observing' = FALSE
    /\ queue' = <<>>
    /\ pc' = [t \in Tasks |-> "idle"]
    /\ access_token' = [t \in Tasks |-> None]
    /\ config_reload_event' = FALSE
    /\ rederived' = TRUE
    /\ loc' = [t \in SyncTasks |-> NoLocals]
    /\ cyc' = [t \in SyncTasks |-> NoCycle]
    /\ lastCall' = NoLastCall
    /\ UNCHANGED <<monitored, config, max_retries, log, deltaFile, everProcessed>>

\* ConfigReloadHandler.on_modified, called by the observer thread:
\* update_config installs a snapshot and the reload event is set. (When
\* update_config raises, nothing changes.)
OnModified ==
    /\ UNCHANGED unitVars
    /\ UNCHANGED fbVars
    /\ observing
    /\ \E snapshot \in ConfigSnapshots : config' = snapshot
    /\ config_reload_event' = TRUE
    /\ rederived' = FALSE
    /\ UNCHANGED <<monitored, mainPc, mainToken, observing, queue, pc, access_token, max_retries, log,
                   deltaFile, loc, cyc, lastCall, everProcessed>>

\* The provider receives a message in mailbox m.
Arrive(m) ==
    /\ UNCHANGED unitVars
    /\ UNCHANGED fbVars
    /\ m \in Receiving
    /\ Len(log[m]) < MaxMsgs
    /\ \E kind \in MsgKinds : log' = [log EXCEPT ![m] = Append(@, kind)]
    /\ UNCHANGED <<monitored, mainPc, mainToken, observing, queue, pc, access_token, config,
                   max_retries, config_reload_event, rederived, deltaFile, loc,
                   cyc, lastCall, everProcessed>>

\* ------------------------------------------------------- main_email_loop

\* Where the sync loop goes after lines 114-125: with no token to the sleep;
\* with the reload event set and the reloads done to the clear of line 126,
\* with a reload that raised to the sleep; otherwise to the fetch.
AfterSyncGet(token, event, raises) ==
    IF token # Token THEN "sleep"
    ELSE IF ~event THEN "fetch"
    ELSE IF raises THEN "sleep"
    ELSE "clear"

\* Lines 114-125: access_token_queue.get(); with a token, load the cursor map
\* under the lock (the read may fail) and, on a set reload event, run
\* reload_keywords and reload_sentiment_pipeline; either may raise (the
\* embedding model, the cache file, the pipeline after its retries), which
\* ends the cycle at line 151.
SyncGet(t) ==
    /\ UNCHANGED unitVars
    /\ UNCHANGED fbVars
    /\ pc[t] = "get"
    /\ queue # <<>>
    /\ queue' = Tail(queue)
    /\ access_token' = [access_token EXCEPT ![t] = Head(queue)]
    /\ \E readable \in BOOLEAN, raises \in BOOLEAN :
          LET next == AfterSyncGet(Head(queue), config_reload_event, raises)
          IN  /\ pc' = [pc EXCEPT ![t] = next]
              /\ rederived' = IF next = "clear" THEN TRUE ELSE rederived
              /\ loc' = IF Head(queue) = Token
                        THEN [loc EXCEPT ![t].delta_tokens =
                                            load_delta_tokens(deltaFile, readable)]
                        ELSE loc
              /\ cyc' = IF Head(queue) = Token
                        THEN [cyc EXCEPT ![t].cursor0 = Persisted(t[1])]
                        ELSE cyc
    /\ UNCHANGED <<monitored, mainPc, mainToken, observing, config, max_retries, config_reload_event,
                   log, deltaFile, lastCall, everProcessed>>

\* Line 126: config_reload_event.clear().
SyncClear(t) ==
    /\ UNCHANGED unitVars
    /\ UNCHANGED fbVars
    /\ pc[t] = "clear"
    /\ config_reload_event' = FALSE
    /\ pc' = [pc EXCEPT ![t] = "fetch"]
    /\ UNCHANGED <<monitored, mainPc, mainToken, observing, queue, access_token, config, max_retries,
                   rederived, log, deltaFile, loc, cyc, lastCall, everProcessed>>

\* Provider pagination: the number of page requests for a batch of n messages.
Pages(n) == IF n = 0 THEN 1 ELSE (n + PageSize - 1) \div PageSize

\* Page k of a batch.
Page(batch, k) ==
    SubSeq(batch, (k - 1) * PageSize + 1,
           IF k * PageSize < Len(batch) THEN k * PageSize ELSE Len(batch))

\* A get_emails that puts each later page in front of the earlier ones.
RECURSIVE ExtendPagesInFront(_, _, _)
ExtendPagesInFront(batch, k, last) ==
    IF k > last THEN <<>>
    ELSE ExtendPagesInFront(batch, k + 1, last) \o Page(batch, k)

\* emails.extend(page) over pages k..last, in the order the pages are requested.
RECURSIVE ExtendPages(_, _, _)
ExtendPages(batch, k, last) ==
    IF k > last THEN <<>> ELSE Page(batch, k) \o ExtendPages(batch, k + 1, last)

\* The ids first..last, ascending: the provider's change log from a position.
RECURSIVE Ids(_, _)
Ids(first, last) == IF first > last THEN <<>> ELSE <<first>> \o Ids(first + 1, last)

\* EmailClient.get_emails on a mailbox holding `count` messages: the request
\* for page `failPage` exhausts its retries (0: none does). With a cursor the
\* provider returns the changes after it, without one the whole mailbox; the
\* last page carries the delta link. A RequestException gives ([], None); a
\* None response makes response.json() raise, which get_emails does not catch.
get_emails(count, delta_token, retries, failPage) ==
    LET batch == Ids(IF Truthy(delta_token) THEN delta_token[1] + 1 ELSE 1, count)
        first == MakeGraphApiRequest(retries, IF failPage = 1 THEN retries ELSE 0)
    IN  IF first = "none"
        THEN [ended |-> "raised", emails |-> <<>>, token |-> NoCursor]
        ELSE IF failPage \in 1..Pages(Len(batch))
        THEN [ended |-> "returned", emails |-> <<>>, token |-> NoCursor]
        ELSE [ended |-> "returned",
              emails |-> ExtendPages(batch, 1, Pages(Len(batch))),
              token |-> CursorAt(count)]

\* Where the sync loop goes after a batch item: the next message, or the
\* cursor update of lines 137-143.
AfterMessage(emails, idx) == IF idx <= Len(emails) THEN "process" ELSE "persist"

\* A sync loop that, when process_email raises, abandons the batch and
\* goes to the cursor update all the same.
AfterRaiseSaving == "persist"

\* Where the sync loop goes when process_email raises: the exception leaves
\* the for loop and is caught at line 151.
AfterRaise == "sleep"

\* Lines 128-131: get_emails under the lock.
SyncFetch(t) ==
    /\ UNCHANGED unitVars
    /\ UNCHANGED fbVars
    /\ pc[t] = "fetch"
    /\ LET m == t[1]
           count == Len(log[m])
           current_delta_token == loc[t].delta_tokens[m]
       IN  \E failPage \in 0..Pages(count) :
              LET r == get_emails(count, current_delta_token, max_retries, failPage)
              IN  /\ loc' = [loc EXCEPT ![t].emails = r.emails,
                                        ![t].new_delta_token = r.token,
                                        ![t].idx = 1]
                  /\ cyc' = [cyc EXCEPT
                               ![t].fetch = IF r.ended = "raised" THEN "error"
                                            ELSE IF Truthy(r.token) THEN "ok"
                                            ELSE "failed",
                               ![t].failPage = failPage]
                  /\ pc' = [pc EXCEPT ![t] = IF r.ended = "raised" THEN "sleep"
                                             ELSE AfterMessage(r.emails, 1)]
    /\ UNCHANGED <<monitored, mainPc, mainToken, observing, queue, access_token, config, max_retries,
                   config_reload_event, rederived, log, deltaFile, lastCall,
                   everProcessed>>

\* Lines 134-135: process_email on the next message of the batch.
SyncProcess(t) ==
    /\ UNCHANGED unitVars
    /\ UNCHANGED fbVars
    /\ pc[t] = "process"
    /\ LET m == t[1]
           id == loc[t].emails[loc[t].idx]
       IN  \E r \in {process_email(log[m][id], config, max_retries, fails) :
                        fails \in SUBSET RequestNames} :
                  /\ lastCall' = [task |-> t, id |-> id, cfg |-> config, result |-> r]
                  /\ everProcessed' = everProcessed \cup {<<m, id>>}
                  /\ cyc' = [cyc EXCEPT ![t].processed = @ + 1,
                                        ![t].raised = r.raised,
                                        ![t].unforwarded =
                                            @ \/ (r.sendCalled /\ ~r.posted)]
                  /\ loc' = [loc EXCEPT ![t].idx = @ + 1]
                  /\ pc' = [pc EXCEPT ![t] =
                               IF r.raised THEN AfterRaise
                               ELSE AfterMessage(loc[t].emails, loc[t].idx + 1)]
    /\ UNCHANGED <<monitored, mainPc, mainToken, observing, queue, access_token, config, max_retries,
                   config_reload_event, rederived, log, deltaFile>>

\* Lines 137-143: with a new cursor, update the loaded map and save it.
SyncPersist(t) ==
    /\ UNCHANGED unitVars
    /\ UNCHANGED fbVars
    /\ pc[t] = "persist"
    /\ LET new_delta_token == loc[t].new_delta_token
           delta_tokens == [loc[t].delta_tokens EXCEPT ![t[1]] = new_delta_token]
       IN  IF Truthy(new_delta_token)
           THEN \E outcome \in SaveOutcomes :
                   /\ deltaFile' = save_delta_tokens(deltaFile, delta_tokens, outcome)
                   /\ loc' = [loc EXCEPT ![t].delta_tokens = delta_tokens]
                   /\ cyc' = [cyc EXCEPT ![t].saves = Append(@, new_delta_token)]
           ELSE UNCHANGED <<deltaFile, loc, cyc>>
    /\ pc' = [pc EXCEPT ![t] = "sleep"]
    /\ lastCall' = NoLastCall
    /\ UNCHANGED <<monitored, mainPc, mainToken, observing, queue, access_token, config, max_retries,
                   config_reload_event, rederived, log, everProcessed>>

\* The position of a task whose sleep interval does not parse: the ValueError
\* is raised outside the try block and ends the task's function.
AfterIntervalError == "dead"

\* Lines 160-162: parse the interval, sleep, then put the refreshed token
\* (get_access_token returns a token or None).
SyncSleepPut(t) ==
    /\ UNCHANGED unitVars
    /\ UNCHANGED fbVars
    /\ pc[t] = "sleep"
    /\ IF parse_interval(config.main_loop).ok
       THEN /\ \E refreshed \in {Token, None} : queue' = Append(queue, refreshed)
            /\ pc' = [pc EXCEPT ![t] = "get"]
            /\ access_token' = [access_token EXCEPT ![t] = None]
       ELSE /\ pc' = [pc EXCEPT ![t] = AfterIntervalError]
            /\ UNCHANGED <<queue, access_token>>
    /\ loc' = [loc EXCEPT ![t] = NoLocals]
    /\ cyc' = [cyc EXCEPT ![t] = NoCycle]
    /\ lastCall' = NoLastCall
    /\ UNCHANGED <<monitored, mainPc, mainToken, observing, config, max_retries, config_reload_event,
                   rederived, log, deltaFile, everProcessed>>

\* ---------------------------------------------------- check_for_feedback

\* interval_key = f"{feedback_type}_feedback_loop", looked up in the snapshot.
FeedbackInterval(cfg, feedback_type) ==
    IF feedback_type = "fp" THEN cfg.fp_feedback_loop ELSE cfg.fn_feedback_loop

\* Lines 33-41: access_token_queue.get(); with a token, last_checked is
\* computed from the interval (a ValueError is caught at line 98) and the
\* reload event is cleared if it is set.
FeedbackGet(t) ==
    /\ UNCHANGED unitVars
    /\ UNCHANGED fbVars
    /\ pc[t] = "get"
    /\ queue # <<>>
    /\ queue' = Tail(queue)
    /\ access_token' = [access_token EXCEPT ![t] = Head(queue)]
    /\ IF Head(queue) = Token /\ parse_interval(FeedbackInterval(config, t[2])).ok
       THEN /\ config_reload_event' = FALSE
            /\ pc' = [pc EXCEPT ![t] = "scan"]
       ELSE /\ pc' = [pc EXCEPT ![t] = "sleep"]
            /\ UNCHANGED config_reload_event
    /\ UNCHANGED <<monitored, mainPc, mainToken, observing, config, max_retries, rederived, log,
                   deltaFile, loc, cyc, lastCall, everProcessed>>

\* Lines 43-92: the due check and the scan of the Inbox. An interval that
\* no longer parses raises ValueError, caught at line 98. The response holds
\* some run of the recent messages (the received-since filter and $top).
FeedbackScan(t) ==
    /\ UNCHANGED unitVars
    /\ pc[t] = "scan"
    /\ pc' = [pc EXCEPT ![t] = "sleep"]
    /\ IF ~parse_interval(FeedbackInterval(config, t[2])).ok
       THEN UNCHANGED fbVars
       ELSE \E due \in BOOLEAN, fails \in BOOLEAN,
               first \in 1..(Len(inbox) + 1), last \in 0..Len(inbox) :
               LET r == check_for_feedback(due, fails,
                                           SubSeq(inbox, first, last),
                                           processed_message_ids[t], t[2])
               IN  /\ processed_message_ids' =
                          [processed_message_ids EXCEPT
                              ![t] = r.processed_message_ids]
                   /\ reported' =
                          [reported EXCEPT ![t] = Count(@, r.seen.reports)]
                   /\ skipped' =
                          [skipped EXCEPT ![t] = @ \cup r.seen.skipped]
                   /\ inbox' = Provider(inbox, r.requests)
                   /\ UNCHANGED windowVars
    /\ UNCHANGED <<monitored, mainPc, mainToken, observing, queue, access_token, config, max_retries,
                   config_reload_event, rederived, log, deltaFile, loc, cyc,
                   lastCall, everProcessed>>

\* Lines 107-108: parse the interval, sleep, then put the refreshed token.
FeedbackSleepPut(t) ==
    /\ UNCHANGED unitVars
    /\ UNCHANGED fbVars
    /\ pc[t] = "sleep"
    /\ IF parse_interval(FeedbackInterval(config, t[2])).ok
       THEN /\ \E refreshed \in {Token, None} : queue' = Append(queue, refreshed)
            /\ pc' = [pc EXCEPT ![t] = "get"]
            /\ access_token' = [access_token EXCEPT ![t] = None]
       ELSE /\ pc' = [pc EXCEPT ![t] = AfterIntervalError]
            /\ UNCHANGED <<queue, access_token>>
    /\ UNCHANGED <<monitored, mainPc, mainToken, observing, config, max_retries, config_reload_event,
                   rederived, log, deltaFile, loc, cyc, lastCall, everProcessed>>

\* ------------------------------------------------------------ the system

Next ==
    \/ MainStart
    \/ KeyboardInterrupt
    \/ Restart
    \/ OnModified
    \/ \E m \in Mailboxes : Arrive(m)
    \/ \E t \in SyncTasks : SyncGet(t)
    \/ \E t \in SyncTasks : SyncClear(t)
    \/ \E t \in SyncTasks : SyncFetch(t)
    \/ \E t \in SyncTasks : SyncProcess(t)
    \/ \E t \in SyncTasks : SyncPersist(t)
    \/ \E t \in SyncTasks : SyncSleepPut(t)
    \/ \E t \in FeedbackTasks : FeedbackGet(t)
    \/ \E t \in FeedbackTasks : FeedbackScan(t)
    \/ \E t \in FeedbackTasks : FeedbackSleepPut(t)

Spec == Init /\ [][Next]_vars

SpecTwo == InitTwo /\ [][Next]_vars

\* ----------------------------------------------- the units on their own

\* One call of is_complaint on the input, by the processor as it is.
Classify ==
    /\ lastDecision' = is_complaint(input.body, input.subject, input.settings,
                                    complaint_keywords, keyword_embeddings,
                                    input.sent, input.emb)
    /\ firstDecision' = IF firstDecision.ended = "none"
                        THEN lastDecision' ELSE firstDecision
    /\ since' = CASE since = "none" -> "called"
                  [] since = "reloaded" -> "repeated"
                  [] OTHER -> since
    /\ UNCHANGED <<input, complaint_keywords, keyword_embeddings,
                   keywords_file, cache_file, lastRead, lastReload>>
    /\ UNCHANGED requestVars
    /\ UNCHANGED observerVars
    /\ UNCHANGED mainVars

\* One call of reload_keywords: the file is read (or cannot be), the
\* embeddings are computed (or get_embedding raises) and saved (or not).
ReloadKeywords ==
    /\ \E readable \in BOOLEAN, emb \in {EmbeddingRaises, EmbeddingNear},
          outcome \in SaveOutcomes :
          LET r == reload_keywords(complaint_keywords, keyword_embeddings,
                                   cache_file, keywords_file, readable, emb,
                                   outcome)
              read == load_keywords_from_file(keywords_file, readable)
          IN  /\ complaint_keywords' = r.complaint_keywords
              /\ keyword_embeddings' = r.keyword_embeddings
              /\ cache_file' = r.cache_file
              /\ lastReload' = [ended |-> r.ended, how |-> r.how]
              /\ lastRead' = read
              /\ firstDecision' = IF read = lastRead THEN firstDecision
                                  ELSE NoDecision
              /\ since' = IF read # lastRead THEN "none"
                          ELSE IF since = "called" THEN "reloaded"
                          ELSE since
    /\ UNCHANGED <<input, keywords_file, lastDecision>>
    /\ UNCHANGED requestVars
    /\ UNCHANGED observerVars
    /\ UNCHANGED mainVars

\* The complaint keywords file is edited.
EditKeywordsFile ==
    /\ \E file \in KeywordFiles \ {keywords_file} : keywords_file' = file
    /\ UNCHANGED <<input, complaint_keywords, keyword_embeddings, cache_file,
                   lastRead, lastDecision, firstDecision, since, lastReload>>
    /\ UNCHANGED requestVars
    /\ UNCHANGED observerVars
    /\ UNCHANGED mainVars

\* The classifier on every input, by a processor loaded from its files.
InitClassifier ==
    /\ MainIdle
    /\ RequestIdle
    /\ ObserverIdle
    /\ input \in ClassifierInputs
    /\ \E file \in KeywordFiles : LoadedFrom(file)
    /\ NoHistory

\* ------------------------------------------------------------ the claims

\* A task between its access_token_queue.get() and its put().
InSection(t) == pc[t] \in {"clear", "fetch", "process", "persist", "scan", "sleep"}

\* C1, first half: in a cycle whose fetch failed (get_emails returned
\* ([], None) or raised), the mailbox's persisted cursor is the one the cycle
\* started with, no message was processed and save_delta_tokens was not called.
C1_FetchFailureLeavesCursor ==
    \A t \in SyncTasks :
        cyc[t].fetch \in {"failed", "error"} =>
            /\ Persisted(t[1]) = cyc[t].cursor0
            /\ cyc[t].processed = 0
            /\ cyc[t].saves = <<>>

\* C1 (cursor safety): a cycle whose fetch fails leaves the persisted cursor
\* unchanged and processes no message; a cycle whose fetch succeeds and
\* returns a new cursor has, when it reaches its sleep, called
\* save_delta_tokens exactly once, with that cursor.
C1_CursorSafety ==
    /\ C1_FetchFailureLeavesCursor
    /\ \A t \in SyncTasks :
          (pc[t] = "sleep" /\ cyc[t].fetch = "ok"
             /\ Truthy(loc[t].new_delta_token)) =>
              cyc[t].saves = <<loc[t].new_delta_token>>

\* C2 (no message is skipped): whenever a cursor is persisted for a mailbox,
\* every message of the mailbox up to the cursor's position, that is every
\* message of every batch the cursor was returned with or came after, has
\* been passed to process_email. The states after a restart and after a
\* failed cycle are covered: there the old cursor stands, so the messages not
\* yet processed lie after it and are fetched again.
C2_NoMessageSkipped ==
    \A m \in Mailboxes :
        Truthy(Persisted(m)) =>
            \A id \in 1..Persisted(m)[1] : <<m, id>> \in everProcessed

\* C2's case: the persisted cursor of the mailbox has been replaced by the
\* cursor returned with a batch, and stands past two delivered messages.
C2_Witness ==
    /\ Truthy(Persisted("a"))
    /\ Persisted("a")[1] >= 2
    /\ Len(log["a"]) >= 2

\* C3 (per-message failure isolation): when a process_email call of a batch
\* raised, the cycle still passes every message of the batch to process_email
\* and calls save_delta_tokens with the new cursor before it sleeps.
C3_PerMessageIsolation ==
    \A t \in SyncTasks :
        (pc[t] = "sleep" /\ cyc[t].raised) =>
            /\ cyc[t].processed = Len(loc[t].emails)
            /\ cyc[t].saves = <<loc[t].new_delta_token>>

\* C4 (task-boundary failure isolation): no error ends a task: every
\* submitted task is waiting for the credential or in its cycle, never
\* terminated, so the credential always comes back to the queue.
C4_TaskBoundaryIsolation ==
    \A t \in Tasks : pc[t] # "dead"

\* C5 (single-slot credential hand-off): once the tasks run, either one item
\* is in the queue and no task is between its get and its put, or the queue
\* is empty and exactly one task is between its get and its put.
C5_SingleSlot ==
    mainPc \in {"running", "joining"} =>
        \/ Len(queue) = 1 /\ {t \in Tasks : InSection(t)} = {}
        \/ Len(queue) = 0 /\ Cardinality({t \in Tasks : InSection(t)}) = 1

\* C5 without the lost credential: the queue never holds more than one item
\* and no two tasks are between get and put at the same time.
C5_AtMostOne ==
    /\ Len(queue) <= 1
    /\ Cardinality({t \in Tasks : InSection(t)}) + Len(queue) <= 1

\* C6 (hot reload without permanent divergence): no step clears
\* config_reload_event unless reload_keywords and reload_sentiment_pipeline
\* have run since the event was last set.
C6_ClearOnlyAfterRederive ==
    [][(config_reload_event /\ ~config_reload_event') => rederived']_vars

\* C7 (cooperative shutdown): once main has caught KeyboardInterrupt, a task
\* at the top of its loop stops there: no task takes the credential and
\* begins another cycle.
C7_CooperativeShutdown ==
    [][mainPc = "joining" =>
          \A t \in Tasks : pc[t] = "get" => pc'[t] \in {"get", "idle"}]_vars

\* C8 (credential acquisition failure): a task that took None from the queue
\* makes no provider request and no cursor write in that cycle and is at its
\* sleep, from where it puts a new credential; it does not end there.
C8_EmptyCredentialCycle ==
    \A t \in Tasks :
        (pc[t] \notin {"idle", "get"} /\ access_token[t] = None) =>
            /\ pc[t] = "sleep"
            /\ t \in SyncTasks => cyc[t] = NoCycle /\ loc[t] = NoLocals

\* C8 without the end of the task: a task that took None is at its sleep or
\* has ended there, and has made no provider request and no cursor write.
C8_EmptyCredentialSkipsWork ==
    \A t \in Tasks :
        (pc[t] \notin {"idle", "get"} /\ access_token[t] = None) =>
            /\ pc[t] \in {"sleep", "dead"}
            /\ t \in SyncTasks => cyc[t] = NoCycle /\ loc[t] = NoLocals

\* C9 (startup): when the initial get_access_token returned None, main has
\* exited, no task was submitted, the queue is empty and the config thread
\* was not started.
C9_StartupFailure ==
    (mainPc # "start" /\ mainToken = None) =>
        /\ mainPc = "exited"
        /\ queue = <<>>
        /\ \A t \in Tasks : pc[t] = "idle"
        /\ ~observing

\* C9's case: main has run and its initial token was None.
C9_Witness == mainPc = "exited" /\ mainToken = None

\* Some pattern of the list matches the text (re.match).
MatchesSome(patterns, text) ==
    \E i \in 1..Len(patterns) : ReMatch(patterns[i], text) = "match"

\* The message of the last process_email call.
LastMessage == log[lastCall.task[1]][lastCall.id]

\* C10 (exclusion precedence): a process_email call on a message whose sender
\* or subject matches a configured exclusion pattern has not called
\* is_complaint, nor the forward, nor a delete.
C10_ExclusionPrecedence ==
    (/\ lastCall.id # 0
     /\ \/ MatchesSome(lastCall.cfg.exclusions_from, LastMessage.sender)
        \/ MatchesSome(lastCall.cfg.exclusions_subject, LastMessage.subject)) =>
        /\ ~lastCall.result.classified
        /\ ~lastCall.result.sendCalled
        /\ ~lastCall.result.posted
        /\ lastCall.result.deleteRequests = 0

\* C10's case: a message that is_complaint would call a complaint was passed
\* to process_email and its subject alone matched an exclusion (no sender
\* pattern did); the call returned at the exclusion.
C10_Witness ==
    /\ lastCall.id # 0
    /\ LastMessage.verdict = "yes"
    /\ ~MatchesSome(lastCall.cfg.exclusions_from, LastMessage.sender)
    /\ MatchesSome(lastCall.cfg.exclusions_subject, LastMessage.subject)
    /\ lastCall.result.excluded

NextClassifier == Classify

SpecClassifier == InitClassifier /\ [][NextClassifier]_vars

\* Inputs whose decision can depend on the keywords and the embeddings.
ProbeInputs ==
    {i \in ClassifierInputs :
        /\ i.body \in {BodyBad, BodyTagged}
        /\ i.subject = SubjectHi
        /\ i.sent = PositiveSure
        /\ i.emb = EmbeddingNear}

\* The keyword store under reloads and edits of the keywords file, and the
\* classifier on one input. The processor is as __init__ leaves it at its
\* reload_keywords call (complaint_keywords never assigned), or one whose
\* attributes were loaded from the file.
InitKeywords ==
    /\ MainIdle
    /\ RequestIdle
    /\ ObserverIdle
    /\ input \in ProbeInputs
    /\ \E file \in KeywordFiles :
          \/ LoadedFrom(file)
          \/ /\ keywords_file = file
             /\ lastRead = <<>>
             /\ complaint_keywords = Unset(<<>>)
             /\ keyword_embeddings = Unset({})
             /\ cache_file \in {CacheAbsent, CacheOf({KwBad})}
    /\ NoHistory

NextKeywords ==
    \/ Classify
    \/ ReloadKeywords
    \/ EditKeywordsFile

SpecKeywords == InitKeywords /\ [][NextKeywords]_vars

\* --------------------------------------------- the claims on the classifier

\* The sentiment classifier was called on the input and returned NEGATIVE
\* with a confidence of at least sentiment_threshold.
SentimentQualifies ==
    /\ lastDecision.sentimentCalled
    /\ ~input.sent.raises
    /\ input.sent.label = "NEGATIVE"
    /\ input.sent.score >= input.settings.sentiment_threshold

\* The contextual check is on and its score reaches the threshold.
ContextualQualifies ==
    /\ input.settings.use_contextual_check
    /\ ~input.emb.raises
    /\ keyword_embeddings.assigned
    /\ get_contextual_score(clean_email(input.body), keyword_embeddings.value,
                            input.emb)
          >= input.settings.contextual_score_threshold

\* C11 (any single qualifying signal is sufficient): a call of is_complaint
\* in which the sentiment capability returned NEGATIVE with a confidence of
\* at least sentiment_threshold returns COMPLAINT=true.
C11_NegativeSentimentSuffices ==
    SentimentQualifies =>
        lastDecision.ended = "returned" /\ lastDecision.result

\* C11 where the embedding capability does not fail: there the qualifying
\* sentiment decides.
C11_SufficesWhenEmbeddingReturns ==
    (SentimentQualifies /\ ~input.emb.raises) =>
        lastDecision.ended = "returned" /\ lastDecision.result

\* C12 (sentiment failure, fallback disabled): a call of is_complaint in
\* which the sentiment capability raised, with config.fallback off, returns
\* COMPLAINT=false whatever the contextual settings.
C12_SentimentFailureNoFallback ==
    (/\ lastDecision.sentimentCalled
     /\ input.sent.raises
     /\ ~input.settings.fallback) =>
        lastDecision.ended = "returned" /\ ~lastDecision.result

\* C12 where the contextual check is off: there the failure yields false.
C12_FalseWithoutContextualCheck ==
    (/\ lastDecision.sentimentCalled
     /\ input.sent.raises
     /\ ~input.settings.fallback
     /\ ~input.settings.use_contextual_check) =>
        lastDecision.ended = "returned" /\ ~lastDecision.result

\* The places where sub occurs in text.
Occurrences(text, sub) ==
    {i \in 1..(Len(text) - Len(sub) + 1) :
        SubSeq(text, i, i + Len(sub) - 1) = sub}

\* Some complaint keyword occurs in the text, and every occurrence of one
\* has the negation keyword "not" within 15 characters of it.
EveryKeywordNegated(text, keywords) ==
    LET negations == Occurrences(text, <<"n", "o", "t">>)
        places == UNION {Occurrences(text, Lower(k)) : k \in keywords}
    IN  /\ places # {}
        /\ \A i \in places :
              \E j \in negations : i - j <= 15 /\ j - i <= 15

\* C13 (negation suppression): when neither the sentiment nor the contextual
\* signal qualifies and every complaint keyword of the body has a negation
\* keyword within negation_proximity characters, is_complaint does not return
\* COMPLAINT.
C13_NegationSuppression ==
    (/\ lastDecision.ended = "returned"
     /\ ~SentimentQualifies
     /\ ~ContextualQualifies
     /\ complaint_keywords.assigned
     /\ EveryKeywordNegated(clean_email(input.body),
                            Range(complaint_keywords.value))) =>
        ~lastDecision.result

\* The weighted keyword score of test_keyword_match (every weight 1, the
\* threshold 1, the urgency keyword "urgent"): the body-keyword weight for a
\* complaint keyword in the body, the subject-keyword weight for one in the
\* subject, the urgency weight for an urgency keyword in either.
KeywordScore(body, subject, keywords) ==
    LET has(text) == \E k \in keywords : Contains(text, Lower(k))
        urgent(text) == Contains(text, <<"u", "r", "g", "e", "n", "t">>)
    IN  (IF has(body) THEN 1 ELSE 0) + (IF has(subject) THEN 1 ELSE 0)
        + (IF urgent(body) \/ urgent(subject) THEN 1 ELSE 0)

\* C14 (keyword fallback scoring): with fallback on and neither the sentiment
\* nor the contextual signal qualifying, is_complaint returns COMPLAINT
\* exactly when the weighted keyword score reaches keyword_threshold, also
\* for a match in the subject only or with an empty body.
C14_KeywordFallbackScoring ==
    (/\ lastDecision.ended # "none"
     /\ input.settings.fallback
     /\ ~input.settings.use_contextual_check
     /\ ~SentimentQualifies
     /\ complaint_keywords.assigned) =>
        /\ lastDecision.ended = "returned"
        /\ lastDecision.result
              <=> KeywordScore(clean_email(input.body),
                               clean_email(input.subject),
                               Range(complaint_keywords.value)) >= 1

\* C14 as the code has it: the fallback is a complaint exactly when body and
\* subject are not empty and a complaint keyword occurs in the body.
C14_FallbackIsBodyKeyword ==
    (/\ lastDecision.ended # "none"
     /\ input.settings.fallback
     /\ ~input.settings.use_contextual_check
     /\ ~SentimentQualifies
     /\ complaint_keywords.assigned) =>
        /\ lastDecision.ended = "returned"
        /\ lastDecision.result
              <=> /\ input.body # <<>>
                  /\ input.subject # <<>>
                  /\ \E k \in Range(complaint_keywords.value) :
                        Contains(clean_email(input.body), Lower(k))

\* --------------------------------------------- the claims on the keywords

C16_EmbeddingsMatchKeywords ==
    lastReload.ended # "none" =>
        /\ complaint_keywords.assigned
        /\ keyword_embeddings.assigned
        /\ keyword_embeddings.value = Range(complaint_keywords.value)

\* C16 for the reloads that returned, on a processor whose attributes are
\* assigned: also false, a reload that finds the keywords unchanged reuses
\* embeddings an earlier, failed reload left behind.
C16_MatchAfterReturn ==
    (lastReload.ended = "returned" /\ complaint_keywords.assigned) =>
        keyword_embeddings.value = Range(complaint_keywords.value)

\* --------------------------------------------------- get_emails on its own

\* get_emails builds its first request for a stored cursor or for none.
BuildRequest ==
    /\ \E delta_token \in {NoCursor} \cup {CursorAt(p) : p \in 0..MaxMsgs} :
          lastQuery' = [built |-> TRUE, delta_token |-> delta_token,
                        email_filter |-> email_filter,
                        params |-> QueryParams(delta_token, email_filter)]
    /\ UNCHANGED email_filter
    /\ UNCHANGED classifierVars
    /\ UNCHANGED observerVars
    /\ UNCHANGED mainVars

\* update_config installs a snapshot with another email_filter.
EditFilter ==
    /\ \E f \in EmailFilters \ {email_filter} : email_filter' = f
    /\ UNCHANGED lastQuery
    /\ UNCHANGED classifierVars
    /\ UNCHANGED observerVars
    /\ UNCHANGED mainVars

InitRequest ==
    /\ MainIdle
    /\ ObserverIdle
    /\ ClassifierIdle
    /\ email_filter \in EmailFilters
    /\ lastQuery = NoQuery

NextRequest ==
    \/ BuildRequest
    \/ EditFilter

SpecRequest == InitRequest /\ [][NextRequest]_vars

\* C17 (filters only on the initial fetch): a request that carries a delta
\* cursor carries no $filter, $select or $top; a request carries the
\* configured filters only when it was built without a cursor, and then it
\* carries all of them.
C17_FiltersOnlyOnInitialFetch ==
    lastQuery.built =>
        /\ Truthy(lastQuery.delta_token) =>
              /\ lastQuery.params.deltaToken = Quote(lastQuery.delta_token)
              /\ lastQuery.params.filter = <<>>
              /\ ~lastQuery.params.select
              /\ ~lastQuery.params.top
        /\ lastQuery.params.filter # <<>> => ~Truthy(lastQuery.delta_token)
        /\ ~Truthy(lastQuery.delta_token) =>
              lastQuery.params.filter
                  = build_filter_query(lastQuery.email_filter)

\* C17's case: a request built for a stored cursor while a sender domain, a
\* start date and a subject filter are configured.
C17_Witness ==
    /\ lastQuery.built
    /\ Truthy(lastQuery.delta_token)
    /\ Len(build_filter_query(lastQuery.email_filter)) = 3
    /\ lastQuery.params.filter = <<>>

\* ------------------------------------------------- claims on the sync loop

\* A sync loop ends a cycle in which it fetched with the cursor persisted
\* for its mailbox and the provider reported no change.
NoChangeCycleEnds(t) ==
    /\ pc[t] = "persist"
    /\ pc'[t] = "sleep"
    /\ cyc[t].fetch = "ok"
    /\ Truthy(loc[t].delta_tokens[t[1]])
    /\ loc[t].delta_tokens[t[1]] = cyc[t].cursor0
    /\ loc[t].emails = <<>>

\* C18 (no-change cycles): a cycle that fetches with the persisted cursor
\* and is told of no change processes no message and leaves the persisted
\* cursor of its mailbox as it was before the cycle.
C18_NoChangeCycle ==
    [][\A t \in SyncTasks :
          NoChangeCycleEnds(t) =>
              /\ cyc[t].processed = 0
              /\ Persisted(t[1])' = cyc[t].cursor0]_vars

\* C18, as the code has it: the cycle processes no message and calls
\* save_delta_tokens once, with the cursor it fetched with; the persisted
\* cursor is as it was unless that write fails after open() truncated the
\* file, which leaves no cursor for any mailbox.
C18_NoChangeCycleSaves ==
    [][\A t \in SyncTasks :
          NoChangeCycleEnds(t) =>
              /\ cyc[t].processed = 0
              /\ cyc'[t].saves = <<cyc[t].cursor0>>
              /\ \/ Persisted(t[1])' = cyc[t].cursor0
                 \/ /\ ~deltaFile'.ok
                    /\ \A m \in Mailboxes : Persisted(m)' = NoCursor]_vars

\* C18's case: a no-change cycle has ended and the file holds the cursor
\* the cycle fetched with.
C18_Witness ==
    \E t \in SyncTasks :
        /\ pc[t] = "sleep"
        /\ cyc[t].fetch = "ok"
        /\ cyc[t].processed = 0
        /\ Truthy(cyc[t].cursor0)
        /\ cyc[t].saves = <<cyc[t].cursor0>>
        /\ Persisted(t[1]) = cyc[t].cursor0

\* ------------------------------------------- the feedback detectors at work

\* One monitored mailbox that receives no new mail, with two recent messages
\* in its Inbox.
InitFeedback ==
    /\ monitored = {"a"}
    /\ inbox \in [1..2 -> FeedbackMessages]
    /\ InitCommon
    /\ max_retries = 3

NextFeedback ==
    \/ MainStart
    \/ KeyboardInterrupt
    \/ Restart
    \/ OnModified
    \/ \E t \in SyncTasks : SyncGet(t)
    \/ \E t \in SyncTasks : SyncClear(t)
    \/ \E t \in SyncTasks : SyncFetch(t)
    \/ \E t \in SyncTasks : SyncPersist(t)
    \/ \E t \in SyncTasks : SyncSleepPut(t)
    \/ \E t \in FeedbackTasks : FeedbackGet(t)
    \/ \E t \in FeedbackTasks : FeedbackScan(t)
    \/ \E t \in FeedbackTasks : FeedbackSleepPut(t)

SpecFeedback == InitFeedback /\ [][NextFeedback]_vars

\* A step of a feedback detector: a feedback task moves while main() stays
\* where it is.
FeedbackStep ==
    /\ mainPc' = mainPc
    /\ \E t \in FeedbackTasks : pc'[t] # pc[t]

\* ------------------------------------------ claims on the feedback detectors

\* C19 (the feedback detector is observational only): a step of
\* check_for_feedback changes nothing at the provider, nothing of the
\* persisted cursors and nothing else but its own processed ids and the
\* reload event.
C19_ObservationalOnly ==
    [][FeedbackStep =>
          UNCHANGED <<inbox, log, deltaFile, everProcessed, lastCall, loc, cyc,
                      config, monitored, max_retries, mainToken, observing,
                      rederived, queue>>]_vars

\* C19, as the code has it: a step of check_for_feedback changes nothing at
\* the provider and nothing of the persisted cursors; besides its own
\* processed ids and the reload event it changes the shared credential
\* queue, from which it takes a credential and to which it puts one.
C19_ObservationalButForQueue ==
    [][FeedbackStep =>
          /\ UNCHANGED <<inbox, log, deltaFile, everProcessed, lastCall, loc,
                         cyc, config, monitored, max_retries, mainToken,
                         observing, rederived>>
          /\ \/ queue' = queue
             \/ queue # <<>> /\ queue' = Tail(queue)
             \/ \E refreshed \in {Token, None} :
                   queue' = Append(queue, refreshed)]_vars

\* C19's case: a feedback task has scanned a response and logged a message
\* that is still in the Inbox.
C19_Witness ==
    \E t \in FeedbackTasks :
        /\ pc[t] = "sleep"
        /\ \E id \in processed_message_ids[t] :
              \E i \in 1..Len(inbox) : inbox[i].id = id

\* C20 (feedback de-duplication): while a feedback task lives, it logs each
\* message id at most once, whatever the responses of its scans hold, and
\* its processed_message_ids only grows.
C20_ReportedAtMostOnce ==
    [][\A t \in FeedbackTasks :
          /\ mainPc' # "start" =>
                processed_message_ids[t] \subseteq processed_message_ids'[t]
          /\ \A id \in FeedbackIds : reported'[t][id] <= 1]_vars

\* C20's case: a task met again, in a later response, an id it had logged.
C20_Witness ==
    \E t \in FeedbackTasks : \E id \in skipped[t] :
        /\ id \in processed_message_ids[t]
        /\ reported[t][id] = 1

\* The feedback detectors of a mailbox that is a member of the distribution
\* list: its Inbox holds forwards of this system and complaints of others.
InitOwnForward ==
    /\ monitored = {"a"}
    /\ inbox \in [1..2 -> {OwnForward, ExternalToList}]
    /\ InitCommon
    /\ max_retries = 3

SpecOwnForward == InitOwnForward /\ [][NextFeedback]_vars

\* C21 (the false-negative scan excludes the system's own output): no fn
\* task reports a message that this system's forward produced.
C21_OwnForwardNotReported ==
    \A t \in FeedbackTasks :
        t[2] = "fn" =>
            \A i \in 1..Len(inbox) :
                inbox[i].origin = "forward" =>
                    inbox[i].id \notin processed_message_ids[t]

\* ------------------------------------------- claims on forwarding and retry

\* A sync loop is at the end of a cycle in which a forward failed.
ForwardFailedCycleEnded(t) ==
    /\ pc[t] = "sleep"
    /\ cyc[t].fetch = "ok"
    /\ cyc[t].unforwarded

\* C22 (forwarding failure): a cycle in which a forward failed still passes
\* every message of its batch to process_email and saves the new cursor at
\* the end of the batch.
C22_ForwardingFailure ==
    \A t \in SyncTasks :
        ForwardFailedCycleEnded(t) =>
            /\ cyc[t].processed = Len(loc[t].emails)
            /\ cyc[t].saves = <<loc[t].new_delta_token>>

\* C22, for the failed forward itself: the process_email call that tried it
\* returns normally, and a cycle in which no process_email call raised
\* passes every message and saves the new cursor.
C22_ForwardFailureContained ==
    /\ lastCall.result.sendCalled /\ ~lastCall.result.posted
          => ~lastCall.result.raised
    /\ \A t \in SyncTasks :
          ForwardFailedCycleEnded(t) /\ ~cyc[t].raised =>
              /\ cyc[t].processed = Len(loc[t].emails)
              /\ cyc[t].saves = <<loc[t].new_delta_token>>

\* C23 (bounded retry of provider requests): a request that did not succeed
\* is reported to its caller as a failure, whatever max_retries is; so the
\* fetch of a sync cycle succeeds or fails (get_emails returns [], None) and
\* never ends with get_emails raising on a response that is no response.
C23_BoundedRetry ==
    \A t \in SyncTasks :
        /\ cyc[t].fetch # "error"
        /\ cyc[t].fetch # "none" =>
              \A failures \in 0..max_retries :
                  MakeGraphApiRequest(max_retries, failures)
                      = IF failures < max_retries THEN "ok" ELSE "raise"

\* C23, for max_retries of at least 1, and for the sync cycle: a request
\* succeeds or raises, and a cycle whose fetch did not succeed processes
\* nothing and saves nothing.
C23_BoundedRetryFromOne ==
    \A t \in SyncTasks :
        /\ max_retries >= 1 => cyc[t].fetch # "error"
        /\ cyc[t].fetch \in {"failed", "error"} =>
              /\ cyc[t].processed = 0
              /\ cyc[t].saves = <<>>

\* ----------------------------------------------- claims on shared resources

\* A sync loop between its load of the cursor map and the end of its save.
InCursorSection(t) == pc[t] \in {"clear", "fetch", "process", "persist"}

\* The load-modify-save sequences of different sync loops do not interleave,
\* and the map a loop holds is the file's present content or the empty map
\* of a read that failed, never an older content of the file.
SerializedCursorUpdates ==
    /\ \A t1, t2 \in SyncTasks :
          t1 # t2 => ~(InCursorSection(t1) /\ InCursorSection(t2))
    /\ \A t \in SyncTasks :
          pc[t] \in {"clear", "fetch", "process"} =>
              loc[t].delta_tokens \in {NoMap, load_delta_tokens(deltaFile, TRUE)}

\* C24 (serialized cursor-map updates): the load-modify-save sequences of
\* different mailboxes' sync loops never interleave, no loop saves a map
\* older than the file, and no save of one loop loses or reverts the
\* persisted cursor of another mailbox.
C24_SerializedCursorUpdates ==
    [][/\ SerializedCursorUpdates'
       /\ \A t \in SyncTasks :
             pc[t] = "persist" /\ pc'[t] = "sleep" =>
                 \A m \in Mailboxes \ {t[1]} :
                     Persisted(m)' = Persisted(m)]_vars

\* C24, the serialization alone.
C24_NoInterleaving == SerializedCursorUpdates

\* A feedback task between its first read of its interval (last_checked,
\* line 37) and its second (the due check, line 43).
BetweenIntervalReads(t) == pc[t] = "scan" /\ pc'[t] = "scan"

\* C25 (atomic configuration snapshot): a hot reload in the middle of a
\* task's cycle does not make the task use old and new values in one cycle:
\* the interval a feedback task reads for the due check is the one it read
\* for last_checked, and the messages of one batch are all processed under
\* the snapshot the first was processed under.
C25_AtomicSnapshot ==
    [][/\ \A t \in FeedbackTasks :
             BetweenIntervalReads(t) =>
                 FeedbackInterval(config', t[2]) = FeedbackInterval(config, t[2])
       /\ \A t \in SyncTasks :
             (pc[t] = "process" /\ lastCall.id # 0 /\ lastCall'.id # 0) =>
                 lastCall'.cfg = lastCall.cfg]_vars

\* ------------------------------------------------------ claims on the batch

\* The position in the mailbox's change log after which the batch of the
\* cycle starts: that of the cursor the cycle fetched with, or 0.
BatchStart(t) ==
    IF Truthy(loc[t].delta_tokens[t[1]]) THEN loc[t].delta_tokens[t[1]][1] ELSE 0

\* C26 (batch order): the k-th process_email call of a cycle is passed the
\* k-th message of the batch in the provider's order, page after page, so no
\* message of the batch is passed twice in the cycle. Stated of the state
\* after each call, while the cycle still holds the cursor it fetched with.
C26_BatchOrder ==
    \A t \in SyncTasks :
        (/\ pc[t] \in {"process", "persist"}
         /\ cyc[t].processed >= 1
         /\ lastCall.task = t) =>
            /\ cyc[t].processed <= Len(loc[t].emails)
            /\ lastCall.id = loc[t].emails[cyc[t].processed]
            /\ lastCall.id = BatchStart(t) + cyc[t].processed

\* C26's case: a cycle has processed a batch that came in two pages.
C26_Witness ==
    \E t \in SyncTasks :
        /\ cyc[t].processed = 2
        /\ Pages(Len(loc[t].emails)) >= 2
        /\ lastCall.task = t
        /\ lastCall.id = loc[t].emails[2]

\* ------------------------------------------- claims on cursor persistence

\* The save of a sync loop's cycle fails: save_delta_tokens is called and
\* the file does not hold the map it was called with.
SaveFails(t) ==
    /\ pc[t] = "persist"
    /\ pc'[t] = "sleep"
    /\ Truthy(loc[t].new_delta_token)
    /\ deltaFile' # [ok |-> TRUE,
                     map |-> [loc[t].delta_tokens EXCEPT
                                 ![t[1]] = loc[t].new_delta_token]]

\* C27 (cursor-persistence failure): when the save of the cursor map fails,
\* the sync loop goes on to its sleep and the persisted cursor of its
\* mailbox keeps its old value, from which the next cycle fetches.
C27_SaveFailureKeepsCursor ==
    [][\A t \in SyncTasks :
          SaveFails(t) => Persisted(t[1])' = Persisted(t[1])]_vars

\* C27, as the code has it: after a failed save the file is as it was, or
\* it no longer decodes and holds no cursor at all; the loop goes on either
\* way, and a later cycle's save that succeeds persists the cursor that
\* cycle fetched.
C27_SaveFailureKeepsOrLoses ==
    [][\A t \in SyncTasks :
          /\ SaveFails(t) =>
                \/ deltaFile' = deltaFile
                \/ ~deltaFile'.ok /\ Persisted(t[1])' = NoCursor
          /\ (pc[t] = "persist" /\ pc'[t] = "sleep"
                /\ Truthy(loc[t].new_delta_token) /\ ~SaveFails(t)) =>
                Persisted(t[1])' = loc[t].new_delta_token]_vars

\* ------------------------------------------------ FileObserver on its own

\* The configuration file is saved: new content, a later modification time.
Touch ==
    /\ config_file.exists
    /\ config_file.content < MaxEdits
    /\ \E mtime \in (config_file.mtime + 1)..MaxTime :
          config_file' = [exists |-> TRUE, mtime |-> mtime,
                          content |-> config_file.content + 1]
    /\ UNCHANGED <<last_modified, handled>>
    /\ UNCHANGED <<classifierVars, requestVars, mainVars>>

\* The file is replaced by one with an earlier modification time (a copy
\* restored from a backup, mv of an older file).
ReplaceOlder ==
    /\ config_file.exists
    /\ config_file.content < MaxEdits
    /\ \E mtime \in 0..(config_file.mtime - 1) :
          config_file' = [exists |-> TRUE, mtime |-> mtime,
                          content |-> config_file.content + 1]
    /\ UNCHANGED <<last_modified, handled>>
    /\ UNCHANGED <<classifierVars, requestVars, mainVars>>

\* The file is removed.
Remove ==
    /\ config_file.exists
    /\ config_file' = [config_file EXCEPT !.exists = FALSE]
    /\ UNCHANGED <<last_modified, handled>>
    /\ UNCHANGED <<classifierVars, requestVars, mainVars>>

\* The file appears again, with new content.
Recreate ==
    /\ ~config_file.exists
    /\ config_file.content < MaxEdits
    /\ \E mtime \in config_file.mtime..MaxTime :
          config_file' = [exists |-> TRUE, mtime |-> mtime,
                          content |-> config_file.content + 1]
    /\ UNCHANGED <<last_modified, handled>>
    /\ UNCHANGED <<classifierVars, requestVars, mainVars>>

\* One iteration of the observer thread's loop. An exception of the handler
\* is caught at line 60 (and before that at src/main.py:173) and
\* last_modified is updated all the same.
Observe ==
    /\ \E oserror \in BOOLEAN :
          LET r == observe(config_file, last_modified, oserror)
          IN  /\ last_modified' = r.last_modified
              /\ handled' = IF r.called THEN config_file.content ELSE handled
    /\ UNCHANGED config_file
    /\ UNCHANGED <<classifierVars, requestVars, mainVars>>

InitObserver ==
    /\ MainIdle
    /\ ClassifierIdle
    /\ RequestIdle
    /\ config_file \in [exists : {TRUE}, mtime : 0..MaxTime, content : {0}]
    /\ last_modified = TimeAt(config_file.mtime)
    /\ handled = 0

NextObserver ==
    \/ Touch
    \/ ReplaceOlder
    \/ Remove
    \/ Recreate
    \/ Observe

\* The observer thread keeps polling: time.sleep(retry_delay) returns.
SpecObserver == InitObserver /\ [][NextObserver]_vars /\ WF_vars(Observe)

\* C28 (change notification): whenever the file holds content that
\* on_modified has not been called for, then eventually on_modified is
\* called for it, unless the file is changed again or removed first.
C28_ChangeNotification ==
    \A c \in 1..MaxEdits :
        (config_file.exists /\ config_file.content = c /\ handled # c)
            ~> (handled = c \/ ~config_file.exists \/ config_file.content # c)

\* C28, for a file saved in place with a later modification time than the
\* one the observer recorded: on_modified is called for it.
C28_LaterTimeNotified ==
    \A c \in 1..MaxEdits :
        (/\ config_file.exists /\ config_file.content = c /\ handled # c
         /\ last_modified # NoTime /\ config_file.mtime > last_modified[1])
            ~> (handled = c \/ ~config_file.exists \/ config_file.content # c)

\* ------------------------------------------------ claims on the decision rule

\* The keyword signal of the spec qualifies: the weighted keyword score
\* reaches the threshold and not every keyword of the body is negated.
KeywordQualifies ==
    /\ complaint_keywords.assigned
    /\ KeywordScore(clean_email(input.body), clean_email(input.subject),
                    Range(complaint_keywords.value)) >= 1
    /\ ~EveryKeywordNegated(clean_email(input.body),
                            Range(complaint_keywords.value))

\* C29 (decision rule, necessity): is_complaint returns COMPLAINT only if the
\* sentiment signal qualifies, or the contextual check is on and its score
\* reaches the threshold, or fallback is on and the keyword signal qualifies.
C29_DecisionNecessity ==
    (lastDecision.ended = "returned" /\ lastDecision.result) =>
        \/ SentimentQualifies
        \/ ContextualQualifies
        \/ input.settings.fallback /\ KeywordQualifies

\* C29, the gating alone: a COMPLAINT comes from the signal recorded for it;
\* the contextual signal decides only with use_contextual_check on, the
\* keyword test only with fallback on and a complaint keyword in the body.
C29_GatedByFlags ==
    (lastDecision.ended = "returned" /\ lastDecision.result) =>
        /\ lastDecision.signal = "sentiment" => SentimentQualifies
        /\ lastDecision.signal = "contextual" => ContextualQualifies
        /\ lastDecision.signal = "keyword" =>
              /\ input.settings.fallback
              /\ \E k \in Range(complaint_keywords.value) :
                    Contains(clean_email(input.body), Lower(k))
        /\ lastDecision.signal \in {"sentiment", "contextual", "keyword"}

\* ------------------------------------------------------------------------
\* claims on the delete of the original
\* ------------------------------------------------------------------------

\* C30 (delete only after a successful forward): a process_email call with
\* delete_original on has issued a DELETE for the message only if the forward
\* of that message was accepted.
C30_DeleteOnlyAfterForward ==
    (lastCall.id # 0 /\ lastCall.cfg.delete_original
        /\ lastCall.result.deleteRequests > 0) =>
        lastCall.result.posted

\* C30, as the code has it: a DELETE is issued exactly when process_email has
\* called the forward with delete_original on, whether or not it was accepted.
C30_DeleteAfterForwardCall ==
    lastCall.id # 0 =>
        (lastCall.result.deleteRequests > 0 <=>
            lastCall.result.sendCalled /\ lastCall.cfg.delete_original)

\* C31 (single delete): a process_email call issues at most one DELETE
\* request sequence for the message it was passed.
C31_SingleDelete ==
    lastCall.id # 0 => lastCall.result.deleteRequests <= 1

\* C31, as the code has it: a forward that was accepted with delete_original
\* on is followed by two DELETE request sequences, one in
\* send_message_to_distribution_list and one in process_email.
C31_TwoDeletesAfterForward ==
    lastCall.id # 0 =>
        /\ lastCall.result.deleteRequests <= 2
        /\ lastCall.result.deleteRequests = 2 <=>
              lastCall.result.posted /\ lastCall.cfg.delete_original

\* ------------------------------------------------ claims on the cursor file

\* C32 (cross-mailbox frame): the persisted cursor of a mailbox changes only
\* in the save of that mailbox's own sync loop; no step of another mailbox's
\* cycle changes or removes it.
C32_CrossMailboxFrame ==
    [][\A m \in Mailboxes :
          Persisted(m)' # Persisted(m) =>
              /\ pc[<<m, "sync">>] = "persist"
              /\ pc'[<<m, "sync">>] = "sleep"]_vars

\* C32, as the code has it: the save of a sync loop leaves another mailbox
\* with the cursor it had, with the one the loop's own load found for it, or
\* with none (the load failed, or the write truncated the file).
C32_OtherCursorFromLoadedMap ==
    [][\A t \in SyncTasks :
          pc[t] = "persist" /\ pc'[t] = "sleep" =>
              \A m \in Mailboxes \ {t[1]} :
                  Persisted(m)' \in {Persisted(m), loc[t].delta_tokens[m],
                                     NoCursor}]_vars

\* ------------------------------------------- claims on the credential queue

\* The program with a configuration that stays as it is and nothing that
\* stops it: one monitored mailbox that receives mail.
InitCredential ==
    /\ monitored = {"a"}
    /\ inbox = <<>>
    /\ InitCommon
    /\ config = ConfigGood
    /\ max_retries = 3

\* The steps of task t: those of main_email_loop for a sync loop, those of
\* check_for_feedback for a feedback detector.
TaskStep(t) ==
    IF t \in SyncTasks
    THEN \/ SyncGet(t)
         \/ SyncFetch(t)
         \/ SyncProcess(t)
         \/ SyncPersist(t)
         \/ SyncSleepPut(t)
    ELSE \/ FeedbackGet(t)
         \/ FeedbackScan(t)
         \/ FeedbackSleepPut(t)

NextCredential ==
    \/ MainStart
    \/ \E m \in Mailboxes : Arrive(m)
    \/ \E t \in SyncTasks : SyncGet(t)
    \/ \E t \in SyncTasks : SyncFetch(t)
    \/ \E t \in SyncTasks : SyncProcess(t)
    \/ \E t \in SyncTasks : SyncPersist(t)
    \/ \E t \in SyncTasks : SyncSleepPut(t)
    \/ \E t \in FeedbackTasks : FeedbackGet(t)
    \/ \E t \in FeedbackTasks : FeedbackScan(t)
    \/ \E t \in FeedbackTasks : FeedbackSleepPut(t)

\* Every thread of the pool goes on whenever it can: its sleeps and provider
\* calls return, and access_token_queue.get() returns in some waiting thread
\* when the queue holds an item. queue.Queue does not say in which.
SpecCredential ==
    /\ InitCredential
    /\ [][NextCredential]_vars
    /\ \A t \in Tasks : WF_vars(TaskStep(t))

\* Every get_access_token call of the run returned a token.
TokensOnly == \A i \in 1..Len(queue) : queue[i] = Token

\* Task t holds the credential and is in the body of a cycle.
RunsCycle(t) ==
    /\ access_token[t] = Token
    /\ pc[t] \in {"fetch", "process", "persist", "scan"}

\* Every task is blocked in access_token_queue.get() on an empty queue.
AllBlocked ==
    /\ mainPc = "running"
    /\ queue = <<>>
    /\ \A t \in Tasks : t[1] \in monitored => pc[t] = "get"

\* C33 (no starvation on the credential): when no task fails and every
\* token refresh succeeds, a task waiting on access_token_queue eventually
\* obtains the credential and runs a cycle, again and again, and the tasks
\* are never all blocked on an empty queue.
C33_NoStarvation ==
    []TokensOnly =>
        /\ \A t \in Tasks : [](pc[t] = "get" => <>RunsCycle(t))
        /\ []~AllBlocked

\* C33, the part on the queue: with no task ended by an exception the tasks
\* are never all blocked on an empty queue, and the one credential is in the
\* queue or with one task.
C33_NeverAllBlocked ==
    /\ ~AllBlocked
    /\ mainPc = "running" =>
          Len(queue) + Cardinality({t \in Tasks : pc[t] \notin {"idle", "get"}}) = 1

\* ------------------------------------- the feedback scan window on its own

\* Time passes.
Tick ==
    /\ clock < MaxClock
    /\ clock' = clock + 1
    /\ UNCHANGED <<received, windowPc, last_checked, wake, scan, previous>>
    /\ UNCHANGED <<inbox, processed_message_ids, reported, skipped>>
    /\ UNCHANGED <<monitored, mainPc, mainToken, observing, queue, pc,
                   access_token, config, max_retries, config_reload_event,
                   rederived, log, deltaFile, loc, cyc, lastCall, everProcessed>>
    /\ UNCHANGED unitVars

\* The Inbox receives a message now.
ReceiveMail ==
    /\ Cardinality(received) < MaxMail
    /\ clock \notin received
    /\ received' = received \cup {clock}
    /\ UNCHANGED <<clock, windowPc, last_checked, wake, scan, previous>>
    /\ UNCHANGED <<inbox, processed_message_ids, reported, skipped>>
    /\ UNCHANGED <<monitored, mainPc, mainToken, observing, queue, pc,
                   access_token, config, max_retries, config_reload_event,
                   rederived, log, deltaFile, loc, cyc, lastCall, everProcessed>>
    /\ UNCHANGED unitVars

\* Lines 33-37: access_token_queue.get() returns, after however long, and
\* last_checked = time.time() - interval.
WindowGet ==
    /\ windowPc = "get"
    /\ windowPc' = "due"
    /\ last_checked' = TimeAt(clock - WindowInterval)
    /\ UNCHANGED <<clock, received, wake, scan, previous>>
    /\ UNCHANGED <<inbox, processed_message_ids, reported, skipped>>
    /\ UNCHANGED <<monitored, mainPc, mainToken, observing, queue, pc,
                   access_token, config, max_retries, config_reload_event,
                   rederived, log, deltaFile, loc, cyc, lastCall, everProcessed>>
    /\ UNCHANGED unitVars

\* Lines 43-58 and 92: the due check; the request with
\* "receivedDateTime ge last_checked", which may fail (caught at line 94);
\* after the scan last_checked = time.time().
WindowScan ==
    /\ windowPc = "due"
    /\ windowPc' = "sleep"
    /\ wake' = clock + WindowInterval
    /\ \E fails \in BOOLEAN :
          IF clock - last_checked[1] >= WindowInterval /\ ~fails
          THEN /\ scan' = [done |-> TRUE, since |-> last_checked[1],
                           at |-> clock,
                           window |-> {r \in received : r >= last_checked[1]}]
               /\ previous' = IF scan.done THEN TimeAt(scan.at) ELSE NoTime
               /\ last_checked' = TimeAt(clock)
          ELSE UNCHANGED <<scan, previous, last_checked>>
    /\ UNCHANGED <<clock, received>>
    /\ UNCHANGED <<inbox, processed_message_ids, reported, skipped>>
    /\ UNCHANGED <<monitored, mainPc, mainToken, observing, queue, pc,
                   access_token, config, max_retries, config_reload_event,
                   rederived, log, deltaFile, loc, cyc, lastCall, everProcessed>>
    /\ UNCHANGED unitVars

\* Lines 107-108: time.sleep(interval) returns and the token is put back.
WindowSleep ==
    /\ windowPc = "sleep"
    /\ clock >= wake
    /\ windowPc' = "get"
    /\ UNCHANGED <<clock, received, last_checked, wake, scan, previous>>
    /\ UNCHANGED <<inbox, processed_message_ids, reported, skipped>>
    /\ UNCHANGED <<monitored, mainPc, mainToken, observing, queue, pc,
                   access_token, config, max_retries, config_reload_event,
                   rederived, log, deltaFile, loc, cyc, lastCall, everProcessed>>
    /\ UNCHANGED unitVars

InitWindow ==
    /\ MainIdle
    /\ UnitsIdle

NextWindow ==
    \/ Tick
    \/ ReceiveMail
    \/ WindowGet
    \/ WindowScan
    \/ WindowSleep

SpecWindow == InitWindow /\ [][NextWindow]_vars

\* C34 (feedback scan window): every message received between two
\* consecutive scans of the detector is in the response window of the later
\* scan, however long the detector waited for the credential.
C34_ScanWindow ==
    (scan.done /\ previous # NoTime) =>
        \A r \in received :
            (previous[1] < r /\ r < scan.at) => r \in scan.window

\* C34, as the code has it: the window of a scan starts one interval before
\* the cycle obtained the credential, wherever the previous scan was.
C34_WindowOfOneInterval ==
    scan.done =>
        /\ scan.since <= scan.at - WindowInterval
        /\ \A r \in received :
              (scan.since <= r /\ r < scan.at) => r \in scan.window
        /\ \A r \in scan.window : r >= scan.since

\* ------------------------------------------------- claims on missing text

LongestFirst(list) ==
    \A i, j \in 1..Len(list) : i < j => Len(list[i]) >= Len(list[j])

\* C36 (initial keyword load): a reload_keywords that ran, the first one of
\* the constructor included, left complaint_keywords assigned, in order of
\* non-increasing length, and the file's keywords when the file was read.
C36_InitialKeywordLoad ==
    lastReload.ended # "none" =>
        /\ complaint_keywords.assigned
        /\ LongestFirst(complaint_keywords.value)
        /\ lastRead # <<>> =>
              complaint_keywords.value = SortByLenDesc(lastRead)

\* C36, for a processor that has its attributes: every reload_keywords
\* leaves the list the last read gave, in order of non-increasing length.
C36_LaterReloadsSorted ==
    complaint_keywords.assigned =>
        /\ LongestFirst(complaint_keywords.value)
        /\ lastReload.ended # "none" =>
              complaint_keywords.value = SortByLenDesc(lastRead)

\* ------------------------------------------------- claims on the marker

\* process_email, lines 169-170: the header is put in front of the body
\* content of the dictionary get_emails returned, in memory; no request
\* sends that dictionary to the provider.
annotate(message, message_id) ==
    [message EXCEPT !.body.content = <<MarkerPrefix, message_id, MarkerEnd>> \o @]

\* send_message_to_distribution_list, lines 204-215: the payload is made from
\* the message the provider returns for the id, not from the dictionary
\* process_email holds.
forward(provider_message, held_message) ==
    create_forward_message_payload(provider_message)

\* C37 (marker on forwarded mail): the body of every message this system's
\* forward produced matches the false-positive scan's marker pattern.
C37_MarkerOnForward ==
    \A i \in 1..Len(inbox) :
        inbox[i].origin = "forward" =>
            /\ inbox[i].body.present
            /\ MarkerSearch(inbox[i].body.content)

\* C37, as the code has it: a forward is the payload made from the
\* provider's copy of the complaint, whose body is the original content;
\* the copy process_email annotated would have matched the pattern.
C37_ForwardOfProviderCopy ==
    \A i \in 1..Len(inbox) :
        inbox[i].origin = "forward" =>
            /\ inbox[i] = Delivered(forward(OriginalComplaint,
                                            annotate(OriginalComplaint, "1")),
                                    inbox[i].id, "forward")
            /\ inbox[i].body = OriginalComplaint.body
            /\ MarkerSearch(create_forward_message_payload(
                                annotate(OriginalComplaint, "1")).body.content)

====
